---- MODULE Spec2Model ----
(***************************************************************************)
(* Model of the statistical enrichment engine, src/services/enrichment.ts: *)
(* the shared log-factorial cache, Fisher's exact test (right tail), the   *)
(* Benjamini-Hochberg correction and computeEnrichment; and of its callers: *)
(* the server's data store and batch endpoint, and the EnrichmentPanel.     *)
(*                                                                         *)
(* Numbers.  A JavaScript number is modelled by the real number it stands  *)
(* for, exactly: a finite value is a fraction n/d in lowest terms (d > 0), *)
(* and Infinity, -Infinity and NaN are values of their own.                *)
(* Floating-point rounding is not modelled.                                *)
(*                                                                         *)
(* Logarithms.  Every finite value the engine holds in log space is the    *)
(* logarithm of a positive rational, and so is, uniquely, an integer       *)
(* combination of the logarithms of the primes.  Such a value is modelled  *)
(* by its vector of coefficients, a function from LogPrimes to Int:        *)
(* Math.log(i) is the vector of the prime factorisation of i, + and - are  *)
(* pointwise, and Math.exp gives back the fraction.                        *)
(***************************************************************************)
EXTENDS Integers, Sequences, FiniteSets, TLC

VARIABLES logFactorialCache, call, server, panel

vars == <<logFactorialCache, call, server, panel>>

(* ------------------------------------------------------------------ *)
(* Bounds of the model.                                                 *)
(* ------------------------------------------------------------------ *)

\* Largest value of each cell of a contingency table handed to fisherRightTail.
MaxA == 3
MaxB == 1
MaxC == 2
MaxD == 14

\* Largest number of p-values in a list handed to bhFdr.
MaxLen == 3

\* Largest number of transcription factors in a TF-target map.
MaxTFs == 2

\* Largest number of raw rows in the three source files together.
MaxRows == 3

\* Largest number of calls of getDataset and getUniverse in a behaviour that
\* follows them step by step.
MaxCalls == 3

(* ------------------------------------------------------------------ *)
(* Exact arithmetic on JavaScript numbers.                              *)
(* A number is [kind, n, d]: kind "fin" with the fraction n/d, or kind  *)
(* "Infinity", "-Infinity" or "NaN" (then n = 0 and d = 1).             *)
(* ------------------------------------------------------------------ *)

Abs(x) == IF x < 0 THEN -x ELSE x

RECURSIVE Gcd(_, _)
Gcd(x, y) == IF y = 0 THEN x ELSE Gcd(y, x % y)

\* The fraction n/d (d # 0) in lowest terms with a positive denominator.
Frac(n, d) ==
    LET g == Gcd(Abs(n), Abs(d))
        s == IF d < 0 THEN -1 ELSE 1
    IN  [kind |-> "fin", n |-> s * (n \div g), d |-> s * (d \div g)]

Zero == Frac(0, 1)
One == Frac(1, 1)
Infinity == [kind |-> "Infinity", n |-> 0, d |-> 1]
NegInfinity == [kind |-> "-Infinity", n |-> 0, d |-> 1]
NaN == [kind |-> "NaN", n |-> 0, d |-> 1]

IsFinite(x) == x.kind = "fin"

\* The sign of x - y for finite x and y.
Sign(i) == IF i < 0 THEN -1 ELSE IF i > 0 THEN 1 ELSE 0
FracCmp(x, y) == Sign(x.n * y.d - y.n * x.d)

\* x < y and x <= y; any comparison with NaN is false.
NumLt(x, y) ==
    IF x = NaN \/ y = NaN THEN FALSE
    ELSE IF x = y THEN FALSE
    ELSE IF x = NegInfinity \/ y = Infinity THEN TRUE
    ELSE IF x = Infinity \/ y = NegInfinity THEN FALSE
    ELSE FracCmp(x, y) < 0

NumLe(x, y) == x # NaN /\ y # NaN /\ (x = y \/ NumLt(x, y))

\* x + y.
NumAdd(x, y) ==
    IF x = NaN \/ y = NaN THEN NaN
    ELSE IF ~IsFinite(x) /\ ~IsFinite(y) THEN (IF x = y THEN x ELSE NaN)
    ELSE IF ~IsFinite(x) THEN x
    ELSE IF ~IsFinite(y) THEN y
    ELSE LET g == Gcd(x.d, y.d)
             l == (x.d \div g) * y.d
         IN  Frac(x.n * (l \div x.d) + y.n * (l \div y.d), l)

\* x * y and x / y for finite x, y (y # 0).
FracMul(x, y) ==
    LET g1 == Gcd(Abs(x.n), y.d)
        g2 == Gcd(Abs(y.n), x.d)
    IN  Frac((x.n \div g1) * (y.n \div g2), (x.d \div g2) * (y.d \div g1))

FracDiv(x, y) == FracMul(x, Frac(y.d, y.n))

\* x * y and x / y on all numbers (the sign of a zero is not modelled).
NumMul(x, y) ==
    IF x = NaN \/ y = NaN THEN NaN
    ELSE IF IsFinite(x) /\ IsFinite(y) THEN FracMul(x, y)
    ELSE IF x = Zero \/ y = Zero THEN NaN
    ELSE IF NumLt(x, Zero) = NumLt(y, Zero) THEN Infinity ELSE NegInfinity

NumDiv(x, y) ==
    IF x = NaN \/ y = NaN THEN NaN
    ELSE IF ~IsFinite(x) /\ ~IsFinite(y) THEN NaN
    ELSE IF ~IsFinite(y) THEN Zero
    ELSE IF ~IsFinite(x) THEN (IF NumLt(y, Zero) THEN NumMul(x, Frac(-1, 1)) ELSE x)
    ELSE IF y = Zero
         THEN (IF x = Zero THEN NaN ELSE IF NumLt(x, Zero) THEN NegInfinity ELSE Infinity)
    ELSE FracDiv(x, y)

\* The sign of x - y as a sort comparator reads it: 0 when x - y is NaN.
NumCmp(x, y) ==
    IF NumLt(x, y) THEN -1 ELSE IF NumLt(y, x) THEN 1 ELSE 0

\* Math.min(x, y): NaN if either argument is NaN.
MathMin(x, y) ==
    IF x = NaN \/ y = NaN THEN NaN
    ELSE IF NumLe(x, y) THEN x ELSE y

(* ------------------------------------------------------------------ *)
(* Log space.  A value is [kind, v]: kind "fin" with the vector v of    *)
(* prime exponents, or kind "Infinity", "-Infinity" or "NaN" (then v is *)
(* the zero vector).                                                    *)
(* ------------------------------------------------------------------ *)

\* The largest argument Math.log can receive within the bounds.
MaxLogArg == MaxA + MaxB + MaxC + MaxD + 1

LogPrimes == {p \in 2..MaxLogArg : \A q \in 2..(p - 1) : p % q # 0}

RECURSIVE Valuation(_, _)
Valuation(p, i) == IF i % p = 0 THEN 1 + Valuation(p, i \div p) ELSE 0

ZeroVector == [p \in LogPrimes |-> 0]

\* The number 0 in log space (the logarithm of 1).
LogZero == [kind |-> "fin", v |-> ZeroVector]
LogInfinity == [kind |-> "Infinity", v |-> ZeroVector]
LogNegInfinity == [kind |-> "-Infinity", v |-> ZeroVector]
LogNaN == [kind |-> "NaN", v |-> ZeroVector]

\* Math.log(i) for an integer i >= 1.
MathLog(i) == [kind |-> "fin", v |-> [p \in LogPrimes |-> Valuation(p, i)]]

\* x + y and x - y in log space.
LogAdd(x, y) ==
    IF x = LogNaN \/ y = LogNaN THEN LogNaN
    ELSE IF x.kind # "fin" /\ y.kind # "fin" THEN (IF x = y THEN x ELSE LogNaN)
    ELSE IF x.kind # "fin" THEN x
    ELSE IF y.kind # "fin" THEN y
    ELSE [kind |-> "fin", v |-> [p \in LogPrimes |-> x.v[p] + y.v[p]]]

LogNeg(x) ==
    IF x = LogNaN THEN LogNaN
    ELSE IF x = LogInfinity THEN LogNegInfinity
    ELSE IF x = LogNegInfinity THEN LogInfinity
    ELSE [kind |-> "fin", v |-> [p \in LogPrimes |-> -x.v[p]]]

LogSub(x, y) == LogAdd(x, LogNeg(y))

RECURSIVE Power(_, _)
Power(p, e) == IF e = 0 THEN 1 ELSE p * Power(p, e - 1)

\* The product of p^(s * v[p]) over the primes p of P with s * v[p] > 0.
RECURSIVE PrimeProduct(_, _, _)
PrimeProduct(P, v, s) ==
    IF P = {} THEN 1
    ELSE LET p == CHOOSE q \in P : TRUE
         IN  (IF s * v[p] > 0 THEN Power(p, s * v[p]) ELSE 1)
                 * PrimeProduct(P \ {p}, v, s)

\* Math.exp(x).
MathExp(x) ==
    IF x = LogNaN THEN NaN
    ELSE IF x = LogInfinity THEN Infinity
    ELSE IF x = LogNegInfinity THEN Zero
    ELSE Frac(PrimeProduct(LogPrimes, x.v, 1), PrimeProduct(LogPrimes, x.v, -1))

(* ------------------------------------------------------------------ *)
(* logFactorial, logChoose, hypergeomPmf, fisherRightTail.              *)
(* A function that reads or grows the shared cache takes the cache and  *)
(* returns [cache |-> the cache after the call, val |-> its result].    *)
(* Entry i of the JavaScript array is element i + 1 of the sequence.    *)
(* ------------------------------------------------------------------ *)

\* Then(x, e) is e, with x evaluated first.  The result of a call that is
\* used more than once is handed on as an operator argument, which TLC
\* evaluates once, and Then keeps the calls in the order of the program.
Then(x, e) == IF x = x THEN e ELSE e

\* The loop adding Math.log(i + 1) in the place of Math.log(i).
RECURSIVE FillCache_LogOfNext(_, _)
FillCache_LogOfNext(cache, n) ==
    IF Len(cache) > n THEN cache
    ELSE FillCache_LogOfNext(
             Append(cache, LogAdd(cache[Len(cache)], MathLog(Len(cache) + 1))), n)

\* The for loop of logFactorial: append entries until index n exists.
RECURSIVE FillCache(_, _)
FillCache(cache, n) ==
    IF Len(cache) > n THEN cache
    ELSE FillCache(Append(cache, LogAdd(cache[Len(cache)], MathLog(Len(cache)))), n)

\* The return reading one entry too far when the cache holds it:
\* logFactorialCache[n + 1] if that entry exists, logFactorialCache[n] if not.
ReadCache_NextEntry(filled, n) ==
    [cache |-> filled,
     val |-> IF Len(filled) > n + 1 THEN filled[n + 2] ELSE filled[n + 1]]

\* return logFactorialCache[n], with filled the cache after the loop.
ReadCache(filled, n) == [cache |-> filled, val |-> filled[n + 1]]

logFactorial(cache, n) ==
    IF n < 0 THEN [cache |-> cache, val |-> LogZero]
    ELSE ReadCache(FillCache(cache, n), n)

\* logChoose, with f1, f2, f3 the three calls of logFactorial in their order.
logChooseResult(f1, f2, f3) ==
    Then(f3, [cache |-> f3.cache, val |-> LogSub(LogSub(f1.val, f2.val), f3.val)])

logChooseThird(f1, f2, n, k) ==
    Then(f2, logChooseResult(f1, f2, logFactorial(f2.cache, n - k)))

logChooseSecond(f1, n, k) ==
    Then(f1, logChooseThird(f1, logFactorial(f1.cache, k), n, k))

logChoose(cache, n, k) ==
    IF k < 0 \/ k > n THEN [cache |-> cache, val |-> LogNegInfinity]
    ELSE logChooseSecond(logFactorial(cache, n), n, k)

\* The return of hypergeomPmf with the exponentiation forgotten: it returns
\* logP, a number that is -Infinity, 0 or negative.  ln(r) <= r - 1 for every
\* r > 0, so the fraction r - 1 stands for the logarithm: what is negative
\* here is negative there.
hypergeomPmfReturn_NoExp(logP) ==
    IF logP = LogNegInfinity THEN NegInfinity
    ELSE IF IsFinite(MathExp(logP)) THEN NumAdd(MathExp(logP), Frac(-1, 1))
    ELSE MathExp(logP)

\* return Math.exp(logP)
hypergeomPmfReturn(logP) == MathExp(logP)

\* hypergeomPmf, with c1, c2, c3 the three calls of logChoose in their order.
hypergeomPmfResult(c1, c2, c3) ==
    Then(c3, [cache |-> c3.cache,
              val |-> hypergeomPmfReturn(LogSub(LogAdd(c1.val, c2.val), c3.val))])

hypergeomPmfThird(c1, c2, N, n) ==
    Then(c2, hypergeomPmfResult(c1, c2, logChoose(c2.cache, N, n)))

hypergeomPmfSecond(c1, k, N, K, n) ==
    Then(c1, hypergeomPmfThird(c1, logChoose(c1.cache, N - K, n - k), N, n))

hypergeomPmf(cache, k, N, K, n) ==
    hypergeomPmfSecond(logChoose(cache, K, k), k, N, K, n)

\* The for loop of fisherRightTail, from k to maxK, with p the sum so far;
\* FisherAdd is its body, with t the call of hypergeomPmf.
RECURSIVE FisherLoop(_, _, _, _, _, _, _)
FisherAdd(t, k, maxK, N, K, n, p) ==
    Then(t, FisherLoop(t.cache, k + 1, maxK, N, K, n, NumAdd(p, t.val)))

FisherLoop(cache, k, maxK, N, K, n, p) ==
    IF k > maxK THEN Then(p, [cache |-> cache, val |-> p])
    ELSE FisherAdd(hypergeomPmf(cache, k, N, K, n), k, maxK, N, K, n, p)

\* The odds ratio with the denominator b + c in the division.
OddsRatio_SumDenominator(a, b, c, d) ==
    LET denom == b * c
    IN  IF denom = 0 THEN (IF a > 0 THEN Infinity ELSE Zero)
        ELSE Frac(a * d, b + c)

\* The odds ratio with the two values of the special case exchanged.
OddsRatio_SwappedSentinels(a, b, c, d) ==
    LET denom == b * c
    IN  IF denom = 0 THEN (IF a > 0 THEN Zero ELSE Infinity)
        ELSE Frac(a * d, denom)

\* The odds ratio without the special case: the plain division (a * d) / denom.
OddsRatio_NoSpecialCase(a, b, c, d) ==
    NumDiv(Frac(a * d, 1), Frac(b * c, 1))

\* b * c === 0 ? (a > 0 ? Infinity : 0) : (a * d) / (b * c)
OddsRatio(a, b, c, d) ==
    LET denom == b * c
    IN  IF denom = 0 THEN (IF a > 0 THEN Infinity ELSE Zero)
        ELSE Frac(a * d, denom)

\* return { pValue: Math.min(1, p), oddsRatio }, with loop the for loop.
fisherRightTailResult(loop, a, b, c, d) ==
    [cache |-> loop.cache,
     pValue |-> MathMin(One, loop.val),
     oddsRatio |-> OddsRatio(a, b, c, d)]

\* fisherRightTail with the loop written k < maxK: the last term is left out.
fisherRightTail_ExclusiveEnd(cache, a, b, c, d) ==
    LET N == a + b + c + d
        K == a + c
        n == a + b
        maxK == IF K <= n THEN K ELSE n
    IN  fisherRightTailResult(FisherLoop(cache, a, maxK - 1, N, K, n, Zero), a, b, c, d)

\* fisherRightTail with the loop started at k = a + 1: the term of the
\* observed table is left out.
fisherRightTail_StrictTail(cache, a, b, c, d) ==
    LET N == a + b + c + d
        K == a + c
        n == a + b
        maxK == IF K <= n THEN K ELSE n
    IN  fisherRightTailResult(FisherLoop(cache, a + 1, maxK, N, K, n, Zero), a, b, c, d)

fisherRightTail(cache, a, b, c, d) ==
    LET N == a + b + c + d
        K == a + c
        n == a + b
        maxK == IF K <= n THEN K ELSE n
    IN  fisherRightTailResult(FisherLoop(cache, a, maxK, N, K, n, Zero), a, b, c, d)

(* ------------------------------------------------------------------ *)
(* bhFdr.  Index idx of the JavaScript arrays is position idx + 1 of    *)
(* the sequences, so the rank of position i of the sorted view is i.    *)
(* ------------------------------------------------------------------ *)

\* The comparator written b.p - a.p: the sort is descending.
CompareIndexed_Descending(x, y) == NumCmp(y.p, x.p)

\* The comparator of the sort of bhFdr, (a, b) => a.p - b.p, by its sign.
CompareIndexed(x, y) == NumCmp(x.p, y.p)

\* Array.prototype.sort is stable: x goes behind every element that does not
\* compare greater than it.
RECURSIVE InsertIndexed(_, _)
InsertIndexed(sorted, x) ==
    IF sorted = <<>> THEN <<x>>
    ELSE IF CompareIndexed(sorted[Len(sorted)], x) <= 0 THEN Append(sorted, x)
    ELSE Append(InsertIndexed(SubSeq(sorted, 1, Len(sorted) - 1), x),
                sorted[Len(sorted)])

RECURSIVE SortIndexed(_, _)
SortIndexed(s, n) ==
    IF n = 0 THEN <<>> ELSE InsertIndexed(SortIndexed(s, n - 1), s[n])

\* The loop without "prev = q": no running minimum is kept.
RECURSIVE BhLoop_NoPrevUpdate(_, _, _, _, _)
BhLoop_NoPrevUpdate(indexed, m, i, prev, qValues) ==
    IF i < 1 THEN qValues
    ELSE LET rank == i
             q == MathMin(prev, NumDiv(NumMul(indexed[i].p, Frac(m, 1)), Frac(rank, 1)))
         IN  BhLoop_NoPrevUpdate(indexed, m, i - 1, prev,
                                 [qValues EXCEPT ![indexed[i].idx] = q])

\* The loop writing qValues[i] = q: the result is left in sorted order.
RECURSIVE BhLoop_ScatterSorted(_, _, _, _, _)
BhLoop_ScatterSorted(indexed, m, i, prev, qValues) ==
    IF i < 1 THEN qValues
    ELSE LET rank == i
             q == MathMin(prev, NumDiv(NumMul(indexed[i].p, Frac(m, 1)), Frac(rank, 1)))
         IN  BhLoop_ScatterSorted(indexed, m, i - 1, q, [qValues EXCEPT ![i] = q])

\* The loop with rank = i, the 0-based index, instead of i + 1.
RECURSIVE BhLoop_RankFromZero(_, _, _, _, _)
BhLoop_RankFromZero(indexed, m, i, prev, qValues) ==
    IF i < 1 THEN qValues
    ELSE LET rank == i - 1
             q == MathMin(prev, NumDiv(NumMul(indexed[i].p, Frac(m, 1)), Frac(rank, 1)))
         IN  BhLoop_RankFromZero(indexed, m, i - 1, q,
                                 [qValues EXCEPT ![indexed[i].idx] = q])

\* The loop computing p * rank / m instead of p * m / rank.
RECURSIVE BhLoop_InvertedScale(_, _, _, _, _)
BhLoop_InvertedScale(indexed, m, i, prev, qValues) ==
    IF i < 1 THEN qValues
    ELSE LET rank == i
             q == MathMin(prev, NumDiv(NumMul(indexed[i].p, Frac(rank, 1)), Frac(m, 1)))
         IN  BhLoop_InvertedScale(indexed, m, i - 1, q,
                                  [qValues EXCEPT ![indexed[i].idx] = q])

\* The loop with Math.max in the place of Math.min.
RECURSIVE BhLoop_RunningMax(_, _, _, _, _)
BhLoop_RunningMax(indexed, m, i, prev, qValues) ==
    IF i < 1 THEN qValues
    ELSE LET rank == i
             raw == NumDiv(NumMul(indexed[i].p, Frac(m, 1)), Frac(rank, 1))
             q == IF prev = NaN \/ raw = NaN THEN NaN
                  ELSE IF NumLe(prev, raw) THEN raw ELSE prev
         IN  BhLoop_RunningMax(indexed, m, i - 1, q,
                               [qValues EXCEPT ![indexed[i].idx] = q])

\* The loop with rank = i + 2 (one more than the ascending rank).
RECURSIVE BhLoop_RankPlusOne(_, _, _, _, _)
BhLoop_RankPlusOne(indexed, m, i, prev, qValues) ==
    IF i < 1 THEN qValues
    ELSE LET rank == i + 1
             q == MathMin(prev, NumDiv(NumMul(indexed[i].p, Frac(m, 1)), Frac(rank, 1)))
         IN  BhLoop_RankPlusOne(indexed, m, i - 1, q,
                                [qValues EXCEPT ![indexed[i].idx] = q])

\* The loop storing the raw value p * m / rank, the running minimum kept in
\* prev only.
RECURSIVE BhLoop_StoreRaw(_, _, _, _, _)
BhLoop_StoreRaw(indexed, m, i, prev, qValues) ==
    IF i < 1 THEN qValues
    ELSE LET rank == i
             raw == NumDiv(NumMul(indexed[i].p, Frac(m, 1)), Frac(rank, 1))
         IN  BhLoop_StoreRaw(indexed, m, i - 1, MathMin(prev, raw),
                             [qValues EXCEPT ![indexed[i].idx] = raw])

\* The for loop of bhFdr, from position i of the sorted view down to the first.
RECURSIVE BhLoop(_, _, _, _, _)
BhLoop(indexed, m, i, prev, qValues) ==
    IF i < 1 THEN qValues
    ELSE LET rank == i
             q == MathMin(prev, NumDiv(NumMul(indexed[i].p, Frac(m, 1)), Frac(rank, 1)))
         IN  BhLoop(indexed, m, i - 1, q, [qValues EXCEPT ![indexed[i].idx] = q])

\* pValues.map((p, idx) => ({ p, idx })): a new array; pValues is only read.
MapIndexed(pValues) == [i \in 1..Len(pValues) |-> [p |-> pValues[i], idx |-> i]]

\* The sort done on the argument before the map:
\* pValues.sort((a, b) => a - b).map((p, idx) => ({ p, idx })).
BhArrays_SortArgument(pValues) ==
    LET sorted == SortIndexed(MapIndexed(pValues), Len(pValues))
    IN  [pValues |-> [i \in 1..Len(pValues) |-> sorted[i].p],
         indexed |-> [i \in 1..Len(pValues) |-> [p |-> sorted[i].p, idx |-> i]]]

\* The two arrays after lines 47-48: the argument pValues and the array
\* indexed.  sort orders its receiver in place, and its receiver is the array
\* that map returned.
BhArrays(pValues) ==
    [pValues |-> pValues,
     indexed |-> SortIndexed(MapIndexed(pValues), Len(pValues))]

bhFdr(pValues) ==
    LET m == Len(pValues)
    IN  BhLoop(BhArrays(pValues).indexed, m, m, One, [i \in 1..m |-> One])

\* The array handed to bhFdr as the call leaves it: lines 50-61 write to
\* qValues only.
bhFdrArgument(pValues) == BhArrays(pValues).pValues

(* ------------------------------------------------------------------ *)
(* computeEnrichment.  A gene identifier is a string; a Map is the      *)
(* sequence of its entries [tf, targets] in insertion order.            *)
(* ------------------------------------------------------------------ *)

\* String.prototype.toUpperCase on the identifiers of the model: "g1" and
\* "tf1" are the identifiers with lower-case letters.
ToUpperCase(g) == IF g = "g1" THEN "G1" ELSE IF g = "tf1" THEN "TF1" ELSE g

\* The restriction without toUpperCase: if (universe.has(g)) set.add(g).
RestrictToUniverse_CaseSensitive(genes, universe) == {g \in genes : g \in universe}

\* The restriction without the test universe.has(gene).
RestrictToUniverse_NoCheck(genes, universe) == {ToUpperCase(g) : g \in genes}

\* genes.forEach((g) => { const gene = g.toUpperCase();
\*                        if (universe.has(gene)) set.add(gene); })
RestrictToUniverse(genes, universe) ==
    {gene \in {ToUpperCase(g) : g \in genes} : gene \in universe}

\* The test written with && instead of ||.
SkipTF_And(targetGenes, pathway) == targetGenes = {} /\ pathway = {}

\* if (targetGenes.size === 0 || pathway.size === 0) return;
SkipTF(targetGenes, pathway) == targetGenes = {} \/ pathway = {}

\* tfTargets.forEach, from entry i on.  results are the records pushed so
\* far; tables lists, for every call of fisherRightTail made, the TF and the
\* cells handed to it.  EnrichEntry is the body for entry i, with targetGenes
\* its restricted target set, and EnrichPush its end, with f the call of
\* fisherRightTail.
RECURSIVE EnrichLoop(_, _, _, _, _, _, _)
EnrichPush(f, tfTargets, i, pathway, universe, results, tables, targetGenes, t) ==
    Then(f, EnrichLoop(f.cache, tfTargets, i + 1, pathway, universe,
                       Append(results,
                              [tf |-> t.tf,
                               overlap |-> t.a,
                               tfTargets |-> Cardinality(targetGenes),
                               pathwayGenes |-> Cardinality(pathway),
                               oddsRatio |-> f.oddsRatio,
                               pValue |-> f.pValue,
                               fdr |-> One]),
                       Append(tables, t)))

EnrichEntry(cache, tfTargets, i, pathway, universe, results, tables, targetGenes) ==
    LET a == Cardinality({g \in targetGenes : g \in pathway})
        b == Cardinality(targetGenes) - a
        c == Cardinality(pathway) - a
        d == Cardinality(universe) - a - b - c
    IN  IF SkipTF(targetGenes, pathway)
        THEN EnrichLoop(cache, tfTargets, i + 1, pathway, universe, results, tables)
        ELSE EnrichPush(fisherRightTail(cache, a, b, c, d),
                        tfTargets, i, pathway, universe, results, tables, targetGenes,
                        [tf |-> tfTargets[i].tf, a |-> a, b |-> b, c |-> c, d |-> d])

EnrichLoop(cache, tfTargets, i, pathway, universe, results, tables) ==
    IF i > Len(tfTargets)
    THEN Then(results, [cache |-> cache, results |-> results, tables |-> tables,
                        tfTargets |-> tfTargets, universe |-> universe])
    ELSE EnrichEntry(cache, tfTargets, i, pathway, universe, results, tables,
                     RestrictToUniverse(tfTargets[i].targets, universe))

\* The comparator with the p-values exchanged: b.pValue - a.pValue.
CompareResults_Descending(x, y) ==
    LET byP == NumCmp(y.pValue, x.pValue)
    IN  IF byP # 0 THEN byP ELSE Sign(y.overlap - x.overlap)

\* The comparator without the tie-break on the overlap.
CompareResults_NoTieBreak(x, y) == NumCmp(x.pValue, y.pValue)

\* The comparator of the final sort,
\* (a, b) => a.pValue - b.pValue || b.overlap - a.overlap, by its sign.
CompareResults(x, y) ==
    LET byP == NumCmp(x.pValue, y.pValue)
    IN  IF byP # 0 THEN byP ELSE Sign(y.overlap - x.overlap)

RECURSIVE InsertResult(_, _)
InsertResult(sorted, x) ==
    IF sorted = <<>> THEN <<x>>
    ELSE IF CompareResults(sorted[Len(sorted)], x) <= 0 THEN Append(sorted, x)
    ELSE Append(InsertResult(SubSeq(sorted, 1, Len(sorted) - 1), x),
                sorted[Len(sorted)])

\* The list returned as it is, without the sort of line 109.
SortResults_NoSort(s, n) == s

RECURSIVE SortResults(_, _)
SortResults(s, n) ==
    IF n = 0 THEN <<>> ELSE InsertResult(SortResults(s, n - 1), s[n])

\* The backfill done by the position from the end: entry idx takes the q-value
\* of entry m - 1 - idx.
BackfillFdr_FromTheEnd(results, fdr) ==
    [i \in 1..Len(results) |-> [results[i] EXCEPT !.fdr = fdr[Len(results) + 1 - i]]]

\* results.forEach((r, idx) => { r.fdr = fdr[idx]; })
BackfillFdr(results, fdr) ==
    [i \in 1..Len(results) |-> [results[i] EXCEPT !.fdr = fdr[i]]]

\* The end of computeEnrichment, with loop the tfTargets.forEach.  The fields
\* tfTargets, pathwayGenes and universe are the three arguments as the call
\* leaves them: every add of lines 69-83 is on a set made by new Set().
computeEnrichmentResult(loop, pathwayGenes) ==
    [cache |-> loop.cache,
     tfTargets |-> loop.tfTargets,
     pathwayGenes |-> pathwayGenes,
     universe |-> loop.universe,
     results |-> SortResults(
                     BackfillFdr(loop.results,
                                 bhFdr([i \in 1..Len(loop.results) |->
                                           loop.results[i].pValue])),
                     Len(loop.results)),
     tables |-> loop.tables]

computeEnrichment(cache, tfTargets, pathwayGenes, universe) ==
    computeEnrichmentResult(
        EnrichLoop(cache, tfTargets, 1, RestrictToUniverse(pathwayGenes, universe),
                   universe, <<>>, <<>>),
        pathwayGenes)

(* ------------------------------------------------------------------ *)
(* The state machine.                                                   *)
(* logFactorialCache is the module-level array; call is the engine call *)
(* that has just returned (its arguments and its result), or Idle.      *)
(* ------------------------------------------------------------------ *)

Idle == [op |-> "idle"]

\* null, for the variables of the program that hold an object or null.
Null == [kind |-> "null"]

\* The server process as it starts: both module-level caches are null
\* (dataStore line 24, batch endpoint line 8) and no call is in flight.
\* calls lists the calls of getDataset and getUniverse made so far;
\* datasetReads and universeReads count the reads of the data files issued;
\* objects counts the cache objects built, and names each of them.
ServerInit ==
    [cached |-> Null, universeCache |-> Null, calls |-> <<>>,
     datasetReads |-> 0, universeReads |-> 0, objects |-> 0]

\* The EnrichmentPanel before it is mounted.
PanelInit == [mounted |-> FALSE]

Init ==
    /\ logFactorialCache = <<LogZero>>
    /\ call = Idle
    /\ server = ServerInit
    /\ panel = PanelInit

\* A caller invokes fisherRightTail(a, b, c, d).
FisherCall ==
    /\ call = Idle
    /\ \E a \in 0..MaxA, b \in 0..MaxB, c \in 0..MaxC, d \in 0..MaxD :
          \E r \in {fisherRightTail(logFactorialCache, a, b, c, d)} :
              /\ logFactorialCache' = r.cache
              /\ call' = [op |-> "fisherRightTail",
                          a |-> a, b |-> b, c |-> c, d |-> d,
                          pValue |-> r.pValue, oddsRatio |-> r.oddsRatio]
    /\ UNCHANGED <<server, panel>>

\* The caller is done with the result.
Return ==
    /\ call # Idle
    /\ call' = Idle
    /\ UNCHANGED <<logFactorialCache, server, panel>>

\* The p-values a caller may hand to bhFdr: those of the worked examples
\* (0.01, 0.02, 0.03, 0.50), the two ends of [0, 1], and one value above 1.
PValueChoices ==
    {Frac(0, 1), Frac(1, 100), Frac(1, 50), Frac(3, 100), Frac(1, 2), Frac(1, 1),
     Frac(3, 2)}

PValueLists == UNION {[1..m -> PValueChoices] : m \in 0..MaxLen}

\* A caller invokes bhFdr(pValues).
BhCall ==
    /\ call = Idle
    /\ \E ps \in PValueLists :
          call' = [op |-> "bhFdr", pValues |-> ps, qValues |-> bhFdr(ps),
                   after |-> [pValues |-> bhFdrArgument(ps)]]
    /\ UNCHANGED <<logFactorialCache, server, panel>>

\* The inputs a caller may hand to computeEnrichment.  A universe holds
\* upper-case identifiers only (its loaders upper-case every line); term genes
\* and targets hold any identifiers: the empty set, sets inside and partly
\* outside each universe, and sets with the lower-case "g1", alone and beside
\* "G1".  The keys of a map are the first names of TFNames, in that order;
\* the first two TFs take any target set, the TFs after them a fixed one.
Universes == {{}, {"G1", "G2"}, {"G1", "G2", "G3"}}

TargetSets ==
    {{}, {"G1"}, {"g1"}, {"g1", "G1"}, {"G3"}, {"G1", "G2"}, {"G2", "G3"},
     {"G1", "G2", "G3"}}

TermGeneSets == {{}, {"G1"}, {"g1"}, {"G3"}, {"G1", "G2"}, {"G1", "G2", "G3"}}

TFNames == <<"TF1", "TF2", "TF3", "TF4">>

\* The target sets of the TFs after the second one.
FurtherTargetSets == {{"G1", "G2"}}

TFTargetMaps ==
    UNION {{[i \in 1..k |-> [tf |-> TFNames[i],
                             targets |-> IF i \in DOMAIN t THEN t[i] ELSE u[i]]] :
               t \in [1..(IF k < 2 THEN k ELSE 2) -> TargetSets],
               u \in [3..k -> FurtherTargetSets]} : k \in 0..MaxTFs}

\* The end-to-end scenario of the specification: ten genes, two TFs.
ScenarioUniverse == {"G1", "G2", "G3", "G4", "G5", "G6", "G7", "G8", "G9", "G10"}
ScenarioTermGenes == {"G1", "G2", "G3", "G4"}
ScenarioTFTargets ==
    <<[tf |-> "TFA", targets |-> {"G1", "G2", "G5"}],
      [tf |-> "TFB", targets |-> {"G6", "G7"}]>>

EnrichmentInputs ==
    {[tfTargets |-> m, pathwayGenes |-> g, universe |-> u] :
        m \in TFTargetMaps, g \in TermGeneSets, u \in Universes}
    \cup {[tfTargets |-> ScenarioTFTargets, pathwayGenes |-> ScenarioTermGenes,
           universe |-> ScenarioUniverse]}

\* A caller invokes computeEnrichment(tfTargets, pathwayGenes, universe).
EnrichmentCall ==
    /\ call = Idle
    /\ \E in \in EnrichmentInputs :
          \E r \in {computeEnrichment(logFactorialCache, in.tfTargets,
                                      in.pathwayGenes, in.universe)} :
              /\ logFactorialCache' = r.cache
              /\ call' = [op |-> "computeEnrichment",
                          tfTargets |-> in.tfTargets,
                          pathwayGenes |-> in.pathwayGenes,
                          universe |-> in.universe,
                          results |-> r.results,
                          tables |-> r.tables,
                          after |-> [tfTargets |-> r.tfTargets,
                                     pathwayGenes |-> r.pathwayGenes,
                                     universe |-> r.universe]]
    /\ UNCHANGED <<server, panel>>

NextFisher == FisherCall \/ Return

SpecFisher == Init /\ [][NextFisher]_vars

NextBh == BhCall \/ Return

SpecBh == Init /\ [][NextBh]_vars

NextEnrichment == EnrichmentCall \/ Return

SpecEnrichment == Init /\ [][NextEnrichment]_vars

\* The arguments of the calls of logFactorial: integers of either sign.
LogFactorialArgs == (0 - MaxLogArg)..MaxLogArg

\* logFactorial(n) is called; before is the cache as the call found it.
LogFactorialCall ==
    /\ call = Idle
    /\ \E n \in LogFactorialArgs :
          \E r \in {logFactorial(logFactorialCache, n)} :
              /\ logFactorialCache' = r.cache
              /\ call' = [op |-> "logFactorial", n |-> n, val |-> r.val,
                          before |-> logFactorialCache]
    /\ UNCHANGED <<server, panel>>

NextLogFactorial == LogFactorialCall \/ Return

SpecLogFactorial == Init /\ [][NextLogFactorial]_vars

\* The two exported functions that take collections, called in any order.
NextCollections == BhCall \/ EnrichmentCall \/ Return

SpecCollections == Init /\ [][NextCollections]_vars

\* The engine as its callers use it: the three exported functions, called in
\* any order, on the one cache of the module.
NextEngine == FisherCall \/ BhCall \/ EnrichmentCall \/ Return

SpecEngine == Init /\ [][NextEngine]_vars

(* ------------------------------------------------------------------ *)
(* The server's data store: getDataset of src/server/dataStore.         *)
(* A raw row is a record [tf, target, source] as parseTSV returns it    *)
(* (both identifiers trimmed and non-empty); the gene mapping is a      *)
(* function from upper-case identifiers to symbols; the Map of the      *)
(* integration is the sequence of its entries in insertion order, each  *)
(* with its key.  The fields direction and details of an interaction,   *)
(* and pathwayMapping and stats of the dataset, are left out: nothing   *)
(* below reads them.                                                    *)
(* ------------------------------------------------------------------ *)

\* The elements of a sequence.
Range(s) == {s[i] : i \in 1..Len(s)}

\* const resolve = (id) => geneMapping[id.toUpperCase()] || id.toUpperCase();
resolve(geneMapping, id) ==
    IF ToUpperCase(id) \in DOMAIN geneMapping
    THEN geneMapping[ToUpperCase(id)]
    ELSE ToUpperCase(id)

\* const key = `${tfLabel}::${targetLabel}`;
InteractionKey(tfLabel, targetLabel) == tfLabel \o "::" \o targetLabel

\* The position of the entry of a key in the Map, 0 when map.has(key) is false.
MapIndex(map, key) ==
    IF \E i \in 1..Len(map) : map[i].key = key
    THEN CHOOSE i \in 1..Len(map) : map[i].key = key
    ELSE 0

\* The else branch without the test on includes: every row of a known pair
\* pushes its source.
MergeSource_NoDedupe(entry, source) ==
    [entry EXCEPT !.sources = Append(entry.sources, source),
                  !.evidenceCount = Len(entry.sources) + 1]

\* if (!entry.sources.includes(item.source)) {
\*     entry.sources.push(item.source);
\*     entry.evidenceCount = entry.sources.length; }
MergeSource(entry, source) ==
    IF source \notin Range(entry.sources)
    THEN [entry EXCEPT !.sources = Append(entry.sources, source),
                       !.evidenceCount = Len(entry.sources) + 1]
    ELSE entry

\* The body of the forEach of lines 130-160 for one raw row.
IntegrateItem(map, geneMapping, item) ==
    LET tfLabel == resolve(geneMapping, item.tf)
        targetLabel == resolve(geneMapping, item.target)
        key == InteractionKey(tfLabel, targetLabel)
        i == MapIndex(map, key)
    IN  IF i = 0
        THEN Append(map, [key |-> key,
                          tf |-> tfLabel,
                          target |-> targetLabel,
                          tfId |-> item.tf,
                          targetId |-> item.target,
                          sources |-> <<item.source>>,
                          evidenceCount |-> 1,
                          isHighConfidence |-> FALSE])
        ELSE [map EXCEPT ![i] = MergeSource(map[i], item.source)]

\* [...dapData, ...chipData, ...targetData].forEach(...), up to row n.
RECURSIVE IntegrateRows(_, _, _)
IntegrateRows(rows, geneMapping, n) ==
    IF n = 0 THEN <<>>
    ELSE IntegrateItem(IntegrateRows(rows, geneMapping, n - 1), geneMapping, rows[n])

\* isHighConfidence: val.evidenceCount >= 2
HighConfidence(val) == val.evidenceCount >= 2

\* The comparator (a, b) => b.evidenceCount - a.evidenceCount, by its sign.
CompareEvidence(x, y) == Sign(y.evidenceCount - x.evidenceCount)

\* Array.prototype.sort with CompareEvidence: a stable sort.
RECURSIVE InsertInteraction(_, _)
InsertInteraction(sorted, x) ==
    IF sorted = <<>> THEN <<x>>
    ELSE IF CompareEvidence(sorted[Len(sorted)], x) <= 0 THEN Append(sorted, x)
    ELSE Append(InsertInteraction(SubSeq(sorted, 1, Len(sorted) - 1), x),
                sorted[Len(sorted)])

RECURSIVE SortInteractions(_, _)
SortInteractions(s, n) ==
    IF n = 0 THEN <<>> ELSE InsertInteraction(SortInteractions(s, n - 1), s[n])

\* Lines 162-165: Array.from(map.values()).map(...).sort(...).  The key of an
\* entry of the Map is no field of the interaction.
FinishInteractions(map) ==
    SortInteractions(
        [i \in 1..Len(map) |->
            [tf |-> map[i].tf,
             target |-> map[i].target,
             tfId |-> map[i].tfId,
             targetId |-> map[i].targetId,
             sources |-> map[i].sources,
             evidenceCount |-> map[i].evidenceCount,
             isHighConfidence |-> HighConfidence(map[i])]],
        Len(map))

\* The rows of one parsed file, each tagged with the source of the file.
Tagged(rows, source) ==
    [i \in 1..Len(rows) |-> [tf |-> rows[i][1], target |-> rows[i][2], source |-> source]]

\* Lines 119-165 of getDataset: the integrated interactions of the three
\* parsed files dap, chip and target under the gene mapping.
Integrate(dap, chip, target, geneMapping) ==
    LET rows == Tagged(dap, "DAP") \o Tagged(chip, "CHIP") \o Tagged(target, "TARGET")
    IN  FinishInteractions(IntegrateRows(rows, geneMapping, Len(rows)))

\* The Map of lines 127-160, before it is turned into the list.
IntegrationMap(dap, chip, target, geneMapping) ==
    LET rows == Tagged(dap, "DAP") \o Tagged(chip, "CHIP") \o Tagged(target, "TARGET")
    IN  IntegrateRows(rows, geneMapping, Len(rows))

\* The object getDataset builds and caches (lines 167-180), named by id.
LoadDataset(files, id) ==
    [id |-> id,
     interactions |-> Integrate(files.dap, files.chip, files.target, files.mapping),
     geneMapping |-> files.mapping,
     goAnnotations |-> files.go,
     totalInteractions |-> Len(Integrate(files.dap, files.chip, files.target,
                                         files.mapping))]

\* The Set getUniverse builds and caches (batch endpoint lines 13-18), named
\* by id: the lines of the file, trimmed, the empty ones dropped, upper-cased.
LoadUniverse(lines, id) == [id |-> id, genes |-> {ToUpperCase(l) : l \in lines}]

(* ------------------------------------------------------------------ *)
(* The TF-target map of the batch endpoint and of the EnrichmentPanel.  *)
(* ------------------------------------------------------------------ *)

\* (i.targetId || i.target || '').toUpperCase(); an absent targetId is "".
TargetIdentifier(i) ==
    ToUpperCase(IF i.targetId # "" THEN i.targetId ELSE i.target)

\* The filter with the strict test: if (i.evidenceCount <= minConfidence) return;
KeepInteraction_Strict(i, minConfidence, selectedSources) ==
    /\ ~(i.evidenceCount <= minConfidence)
    /\ \E k \in 1..Len(i.sources) : i.sources[k] \in selectedSources
    /\ TargetIdentifier(i) # ""

\* The three early returns of the forEach body:
\*   if (i.evidenceCount < minConfidence) return;
\*   if (!i.sources.some((s) => selectedSources.includes(s))) return;
\*   if (!targetId) return;
KeepInteraction(i, minConfidence, selectedSources) ==
    /\ ~(i.evidenceCount < minConfidence)
    /\ \E k \in 1..Len(i.sources) : i.sources[k] \in selectedSources
    /\ TargetIdentifier(i) # ""

\* The position of the entry of a TF in the map, 0 when there is none.
TfIndex(tfTargets, tf) ==
    IF \E k \in 1..Len(tfTargets) : tfTargets[k].tf = tf
    THEN CHOOSE k \in 1..Len(tfTargets) : tfTargets[k].tf = tf
    ELSE 0

\* const entry = tfTargets.get(tf) || new Set(); entry.add(targetId);
\* tfTargets.set(tf, entry);
AddTarget(tfTargets, tf, targetId) ==
    IF TfIndex(tfTargets, tf) = 0
    THEN Append(tfTargets, [tf |-> tf, targets |-> {targetId}])
    ELSE [tfTargets EXCEPT ![TfIndex(tfTargets, tf)].targets = @ \cup {targetId}]

\* dataset.interactions.forEach(...) of the endpoint, up to interaction n.
RECURSIVE BuildTfTargets(_, _, _, _)
BuildTfTargets(interactions, minConfidence, selectedSources, n) ==
    IF n = 0 THEN <<>>
    ELSE LET before == BuildTfTargets(interactions, minConfidence, selectedSources, n - 1)
         IN  IF KeepInteraction(interactions[n], minConfidence, selectedSources)
             THEN AddTarget(before, interactions[n].tf, TargetIdentifier(interactions[n]))
             ELSE before

(* ------------------------------------------------------------------ *)
(* The batch endpoint, POST /api/enrichment-batch.  A request is a      *)
(* record [method, isArray, terms, minConfidence, selectedSources]:     *)
(* isArray is Array.isArray(terms), and terms the sequence of the term  *)
(* identifiers (empty when isArray is false); minConfidence and         *)
(* selectedSources are given with the defaults of line 29 filled in.    *)
(* ------------------------------------------------------------------ *)

\* Largest number of times the files of one cache are read.
MaxLoads == 2

\* The data directories the server may run on: what the six files of
\* getDataset and the file of getUniverse hold when they are read.
\*   - pairs in one, two and three sources, written in either case;
\*   - a gene mapping that renames a TF and merges two targets;
\*   - empty files.
NoMapping == [x \in {} |-> ""]

DataFiles ==
    {[dap |-> <<<<"TF1", "g1">>, <<"TF2", "G2">>>>,
      chip |-> <<<<"tf1", "G1">>, <<"TF1", "G3">>>>,
      target |-> <<<<"TF1", "G1">>, <<"TF1", "G3">>>>,
      mapping |-> NoMapping,
      go |-> [t \in {"GO1", "GO2"} |->
                 IF t = "GO1" THEN <<"G1", "G2">> ELSE <<"G3">>],
      universe |-> {"G1", "G2", "G3", "G4"}],
     [dap |-> <<<<"TF1", "G1">>, <<"TF1", "G2">>>>,
      chip |-> <<<<"TF2", "G3">>>>,
      target |-> <<<<"TF1", "G2">>>>,
      mapping |-> [x \in {"TF1", "G1", "G2"} |-> IF x = "TF1" THEN "ABC1" ELSE "S1"],
      go |-> [t \in {"GO1"} |-> <<"G1", "G3">>],
      universe |-> {"g1", "G2", "G3"}],
     [dap |-> <<>>, chip |-> <<>>, target |-> <<>>,
      mapping |-> NoMapping,
      go |-> [t \in {} |-> <<>>],
      universe |-> {}]}

\* getDataset run with no other call in flight: the runs it can make from
\* the server state srv.  A cached dataset is returned as it is; otherwise
\* the six files are read, and either a read fails and the call throws, or
\* the dataset is built, cached and returned.
GetDatasetRuns(srv) ==
    IF srv.cached # Null
    THEN {[ok |-> TRUE, server |-> srv, value |-> srv.cached]}
    ELSE IF srv.datasetReads >= MaxLoads THEN {}
    ELSE {[ok |-> FALSE,
           server |-> [srv EXCEPT !.datasetReads = @ + 1],
           value |-> Null]}
         \cup
         {[ok |-> TRUE,
           server |-> [srv EXCEPT !.datasetReads = @ + 1,
                                  !.objects = @ + 1,
                                  !.cached = LoadDataset(f, srv.objects + 1)],
           value |-> LoadDataset(f, srv.objects + 1)] : f \in DataFiles}

\* getUniverse run with no other call in flight, in the same way.
GetUniverseRuns(srv) ==
    IF srv.universeCache # Null
    THEN {[ok |-> TRUE, server |-> srv, value |-> srv.universeCache]}
    ELSE IF srv.universeReads >= MaxLoads THEN {}
    ELSE {[ok |-> FALSE,
           server |-> [srv EXCEPT !.universeReads = @ + 1],
           value |-> Null]}
         \cup
         {[ok |-> TRUE,
           server |-> [srv EXCEPT !.universeReads = @ + 1,
                                  !.objects = @ + 1,
                                  !.universeCache = LoadUniverse(f.universe, srv.objects + 1)],
           value |-> LoadUniverse(f.universe, srv.objects + 1)] : f \in DataFiles}

\* obj[key] = value on a plain object: a function on its keys.
SetKey(obj, key, value) ==
    [k \in DOMAIN obj \cup {key} |-> IF k = key THEN value ELSE obj[k]]

EmptyObject == [k \in {} |-> 0]

\* new Set((dataset.goAnnotations[termId] || []).map((g) => g.toUpperCase()))
TermGenes(dataset, termId) ==
    IF termId \in DOMAIN dataset.goAnnotations
    THEN {ToUpperCase(g) : g \in Range(dataset.goAnnotations[termId])}
    ELSE {}

\* terms.forEach((termId) => {...}), from term i on; TermsStep is the body for
\* term i, with r the call of computeEnrichment.
RECURSIVE TermsLoop(_, _, _, _, _, _, _, _)

\* The body with line 56 keyed by the first term: resultsByTerm[terms[0]] = ...
TermsStep_KeyByFirstTerm(r, terms, i, dataset, tfTargets, universe, resultsByTerm, termGeneCounts) ==
    Then(r, TermsLoop(r.cache, terms, i + 1, dataset, tfTargets, universe,
                      SetKey(resultsByTerm, terms[1], r.results),
                      SetKey(termGeneCounts, terms[i],
                             Cardinality(TermGenes(dataset, terms[i])))))

TermsStep(r, terms, i, dataset, tfTargets, universe, resultsByTerm, termGeneCounts) ==
    Then(r, TermsLoop(r.cache, terms, i + 1, dataset, tfTargets, universe,
                      SetKey(resultsByTerm, terms[i], r.results),
                      SetKey(termGeneCounts, terms[i],
                             Cardinality(TermGenes(dataset, terms[i])))))

TermsLoop(cache, terms, i, dataset, tfTargets, universe, resultsByTerm, termGeneCounts) ==
    IF i > Len(terms)
    THEN [cache |-> cache, resultsByTerm |-> resultsByTerm,
          termGeneCounts |-> termGeneCounts]
    ELSE TermsStep(computeEnrichment(cache, tfTargets, TermGenes(dataset, terms[i]),
                                     universe),
                   terms, i, dataset, tfTargets, universe, resultsByTerm,
                   termGeneCounts)

\* Lines 38-64 of the handler, with dataset and universe loaded: the
\* TF-target map, the loop over the terms and the body of the response.
HandlerBody(loop, tfTargets, universe) ==
    [cache |-> loop.cache,
     tfTargets |-> tfTargets,
     body |-> [resultsByTerm |-> loop.resultsByTerm,
               termGeneCounts |-> loop.termGeneCounts,
               universeSize |-> Cardinality(universe)]]

HandlerTerms(cache, req, dataset, universe, tfTargets) ==
    HandlerBody(TermsLoop(cache, req.terms, 1, dataset, tfTargets, universe,
                          EmptyObject, EmptyObject),
                tfTargets, universe)

HandlerCompute(cache, req, dataset, universe) ==
    HandlerTerms(cache, req, dataset, universe,
                 BuildTfTargets(dataset.interactions, req.minConfidence,
                                req.selectedSources, Len(dataset.interactions)))

\* The requests a client may send.
Sources == {"TARGET", "DAP", "CHIP"}

TermLists ==
    {<<"GO1">>, <<"GO2">>, <<"GO1", "GO2">>, <<"GO2", "GO1", "GO2">>, <<"GO9">>}

Requests ==
    {[method |-> "POST", isArray |-> TRUE, terms |-> t, minConfidence |-> m,
      selectedSources |-> s] :
        t \in TermLists, m \in 1..3,
        s \in {Sources, {"DAP"}, {"CHIP", "TARGET"}, {}}}
    \cup {[method |-> "POST", isArray |-> a, terms |-> <<>>, minConfidence |-> 1,
           selectedSources |-> Sources] : a \in BOOLEAN}
    \cup {[method |-> "GET", isArray |-> TRUE, terms |-> <<"GO1">>,
           minConfidence |-> 1, selectedSources |-> Sources]}

\* What the handler leaves in call: the request, the status and the body of
\* the response, and the TF-target map it built (empty when it built none).
Responded(req, status, body, tfTargets) ==
    [op |-> "handler", req |-> req, status |-> status, body |-> body,
     tfTargets |-> tfTargets]

\* One request served by the handler, from its first line to its response,
\* with no other request in flight.  The handler runs in the server process:
\* there is no panel in it.
HandlerCall ==
    /\ call = Idle
    /\ ~panel.mounted
    /\ \A k \in 1..Len(server.calls) : server.calls[k].pc = "done"
    /\ \E req \in Requests :
          IF req.method # "POST"
          THEN /\ call' = Responded(req, 405, [error |-> "Method not allowed"], <<>>)
               /\ UNCHANGED <<logFactorialCache, server>>
          ELSE IF ~req.isArray \/ Len(req.terms) = 0
          THEN /\ call' = Responded(req, 400, [error |-> "No terms provided"], <<>>)
               /\ UNCHANGED <<logFactorialCache, server>>
          ELSE \E ds \in GetDatasetRuns(server) :
                  IF ~ds.ok
                  THEN /\ call' = Responded(req, 500,
                                            [error |-> "Failed to compute enrichment"],
                                            <<>>)
                       /\ server' = ds.server
                       /\ UNCHANGED logFactorialCache
                  ELSE \E u \in GetUniverseRuns(ds.server) :
                          IF ~u.ok
                          THEN /\ call' = Responded(
                                              req, 500,
                                              [error |-> "Failed to compute enrichment"],
                                              <<>>)
                               /\ server' = u.server
                               /\ UNCHANGED logFactorialCache
                          ELSE \E r \in {HandlerCompute(logFactorialCache, req,
                                                        ds.value, u.value.genes)} :
                                  /\ call' = Responded(req, 200, r.body, r.tfTargets)
                                  /\ server' = u.server
                                  /\ logFactorialCache' = r.cache
    /\ UNCHANGED panel

NextHandler == HandlerCall \/ Return

SpecHandler == Init /\ [][NextHandler]_vars

\* The universe file as it may be read: the lines of the file of some data
\* directory.
UniverseFiles == {f.universe : f \in DataFiles}

(* ------------------------------------------------------------------ *)
(* getDataset and getUniverse, step by step.  Both are async functions  *)
(* on the one thread of the server: a call runs to its await, and       *)
(* resumes when the reads it waits for have ended, while other calls    *)
(* may start and resume in between.  A call is a record of server.calls *)
(*   fn          "getDataset" or "getUniverse";                         *)
(*   pc          "reading" at the await, "done" once it has settled;    *)
(*   ok          it has resolved (not rejected);                        *)
(*   read        it has issued reads of the data files;                 *)
(*   value       the id of the object it resolved with, 0 if none;      *)
(*   overlapped  a load of the same cache was in flight when it started;*)
(*   after       the values of the calls of fn that had resolved when   *)
(*               it started.                                            *)
(* ------------------------------------------------------------------ *)

\* The values of the calls of fn that have resolved.
Resolved(calls, fn) ==
    {calls[k].value : k \in {j \in 1..Len(calls) :
                                calls[j].fn = fn /\ calls[j].pc = "done" /\ calls[j].ok}}

\* A load of the cache of fn is in flight.
InFlight(calls, fn) ==
    \E k \in 1..Len(calls) : calls[k].fn = fn /\ calls[k].pc = "reading"

\* A call that starts: done at once with the cached object, or at its await.
StartedCall(calls, fn, cache) ==
    [fn |-> fn,
     pc |-> IF cache # Null THEN "done" ELSE "reading",
     ok |-> cache # Null,
     read |-> cache = Null,
     value |-> IF cache # Null THEN cache.id ELSE 0,
     overlapped |-> InFlight(calls, fn),
     after |-> Resolved(calls, fn)]

\* getDataset is called (lines 107-117): if (cached) return cached; otherwise
\* the six reads are issued and the call waits for them.
GetDatasetStart ==
    /\ ~panel.mounted
    /\ Len(server.calls) < MaxCalls
    /\ server' = [server EXCEPT
                     !.calls = Append(@, StartedCall(server.calls, "getDataset",
                                                     server.cached)),
                     !.datasetReads = IF server.cached = Null THEN @ + 1 ELSE @]
    /\ UNCHANGED <<logFactorialCache, call, panel>>

\* The reads of a call of getDataset have all succeeded (lines 119-182): the
\* dataset is built, assigned to cached and returned.
GetDatasetLoaded ==
    /\ \E k \in 1..Len(server.calls), f \in DataFiles :
          /\ server.calls[k].fn = "getDataset"
          /\ server.calls[k].pc = "reading"
          /\ server' = [server EXCEPT
                           !.cached = LoadDataset(f, server.objects + 1),
                           !.objects = @ + 1,
                           !.calls[k].pc = "done",
                           !.calls[k].ok = TRUE,
                           !.calls[k].value = server.objects + 1]
    /\ UNCHANGED <<logFactorialCache, call, panel>>

\* A read of a call of getDataset has failed: Promise.all rejects and the call
\* throws at line 110, before any assignment.
GetDatasetFailed ==
    /\ \E k \in 1..Len(server.calls) :
          /\ server.calls[k].fn = "getDataset"
          /\ server.calls[k].pc = "reading"
          /\ server' = [server EXCEPT !.calls[k].pc = "done"]
    /\ UNCHANGED <<logFactorialCache, call, panel>>

\* getUniverse is called (batch endpoint lines 10-12).
GetUniverseStart ==
    /\ ~panel.mounted
    /\ Len(server.calls) < MaxCalls
    /\ server' = [server EXCEPT
                     !.calls = Append(@, StartedCall(server.calls, "getUniverse",
                                                     server.universeCache)),
                     !.universeReads = IF server.universeCache = Null THEN @ + 1 ELSE @]
    /\ UNCHANGED <<logFactorialCache, call, panel>>

\* The read of a call of getUniverse has succeeded (lines 13-19).
GetUniverseLoaded ==
    /\ \E k \in 1..Len(server.calls), lines \in UniverseFiles :
          /\ server.calls[k].fn = "getUniverse"
          /\ server.calls[k].pc = "reading"
          /\ server' = [server EXCEPT
                           !.universeCache = LoadUniverse(lines, server.objects + 1),
                           !.objects = @ + 1,
                           !.calls[k].pc = "done",
                           !.calls[k].ok = TRUE,
                           !.calls[k].value = server.objects + 1]
    /\ UNCHANGED <<logFactorialCache, call, panel>>

\* The read of a call of getUniverse has failed: the call throws at line 12.
GetUniverseFailed ==
    /\ \E k \in 1..Len(server.calls) :
          /\ server.calls[k].fn = "getUniverse"
          /\ server.calls[k].pc = "reading"
          /\ server' = [server EXCEPT !.calls[k].pc = "done"]
    /\ UNCHANGED <<logFactorialCache, call, panel>>

NextDataStore ==
    \/ GetDatasetStart
    \/ GetDatasetLoaded
    \/ GetDatasetFailed
    \/ GetUniverseStart
    \/ GetUniverseLoaded
    \/ GetUniverseFailed

SpecDataStore == Init /\ [][NextDataStore]_vars

(* ------------------------------------------------------------------ *)
(* The EnrichmentPanel.  panel holds the props the component was        *)
(* mounted with (data, selectedSources, goAnnotations), its state       *)
(* variables, the memoised tfTargets and resultsByTerm with the         *)
(* dependencies they were computed from, and:                           *)
(*   fetch    the load of the universe: "pending", "resolved" or        *)
(*            "rejected";                                               *)
(*   dirty    a state variable has changed since the last render;       *)
(*   invoked  the panel has called computeEnrichment.                   *)
(* The panel runs in the browser, on its own instance of the engine: a  *)
(* behaviour with a mounted panel has no server in it.                  *)
(* ------------------------------------------------------------------ *)

\* GO_TERMS and DEFAULT_GO, by their ids.
GO_TERMS == <<"GO1", "GO2", "GO3">>
DEFAULT_GO == <<"GO1", "GO2">>

\* The elements of s that satisfy the test in(x), in their order.
RECURSIVE FilterIn(_, _)
FilterIn(s, keep) ==
    IF s = <<>> THEN <<>>
    ELSE IF s[1] \in keep THEN <<s[1]>> \o FilterIn(Tail(s), keep)
    ELSE FilterIn(Tail(s), keep)

\* availableTerms.filter((t) => t.available).map((t) => t.id): the terms with
\* a non-empty array of annotations.
AvailableIds(goAnnotations) ==
    FilterIn(GO_TERMS, {t \in DOMAIN goAnnotations : Len(goAnnotations[t]) > 0})

\* const fallbackTerms = defaultTerms.length ? defaultTerms : availableIds.slice(0, 2);
FallbackTerms(availableIds) ==
    IF FilterIn(DEFAULT_GO, Range(availableIds)) # <<>>
    THEN FilterIn(DEFAULT_GO, Range(availableIds))
    ELSE SubSeq(availableIds, 1, IF Len(availableIds) < 2 THEN Len(availableIds) ELSE 2)

UniverseErrorMessage == [message |-> "Falta el archivo de Araport11"]

\* new Set([activeTerm, ...selectedTerms].filter(Boolean)), in insertion order.
RECURSIVE Distinct(_)
Distinct(s) ==
    IF s = <<>> THEN <<>>
    ELSE LET front == Distinct(SubSeq(s, 1, Len(s) - 1))
         IN  IF s[Len(s)] \in Range(front) THEN front ELSE Append(front, s[Len(s)])

PanelTerms(activeTerm, selectedTerms) ==
    Distinct(FilterIn(<<activeTerm>> \o selectedTerms, Range(GO_TERMS)))

\* The dependencies of the memoised resultsByTerm that can change while the
\* panel is mounted.
PanelDeps(p) ==
    [activeTerm |-> p.activeTerm, selectedTerms |-> p.selectedTerms,
     evidenceThreshold |-> p.evidenceThreshold, universe |-> p.universe]

\* The memo of lines 114-124 without its first line.
PanelResultsByTerm_NoGuard(cache, p, tfTargets) ==
    TermsLoop(cache, PanelTerms(p.activeTerm, p.selectedTerms), 1,
              [goAnnotations |-> p.goAnnotations], tfTargets,
              IF p.universe = Null THEN {} ELSE p.universe.genes,
              EmptyObject, EmptyObject)

\* The memo of lines 114-124, with tfTargets the memo of lines 89-102:
\* the empty Map while there is no universe, and otherwise one call of
\* computeEnrichment for each term of the set.
PanelResultsByTerm(cache, p, tfTargets) ==
    IF p.universe = Null
    THEN [cache |-> cache, resultsByTerm |-> EmptyObject,
          termGeneCounts |-> EmptyObject]
    ELSE TermsLoop(cache, PanelTerms(p.activeTerm, p.selectedTerms), 1,
                   [goAnnotations |-> p.goAnnotations], tfTargets, p.universe.genes,
                   EmptyObject, EmptyObject)

\* The effect of lines 126-136: what it hands to setResults and
\* setTermGeneCount.
PanelEffect(p, resultsByTerm) ==
    IF p.activeTerm = "" \/ p.universe = Null
    THEN [results |-> <<>>, termGeneCount |-> 0]
    ELSE [results |-> IF p.activeTerm \in DOMAIN resultsByTerm
                      THEN resultsByTerm[p.activeTerm] ELSE <<>>,
          termGeneCount |->
              Cardinality(TermGenes([goAnnotations |-> p.goAnnotations], p.activeTerm))]

\* The props the panel may be mounted with.
PanelProps ==
    {[data |-> Integrate(f.dap, f.chip, f.target, f.mapping),
      goAnnotations |-> f.go,
      selectedSources |-> s,
      minConfidence |-> m] : f \in DataFiles, s \in {Sources, {"DAP"}}, m \in 1..3}

\* The panel is mounted: the first render, with the initial state of lines
\* 27-36, and the effects that follow it.  The effect of lines 45-63 sets the
\* selected and the active term, that of lines 65-87 starts loadUniverse, up
\* to its await of fetch, and that of lines 126-136 finds no active term.
PanelMount ==
    /\ ~panel.mounted
    /\ server = ServerInit
    /\ call = Idle
    /\ \E props \in PanelProps :
          panel' = [mounted |-> TRUE,
                    data |-> props.data,
                    selectedSources |-> props.selectedSources,
                    goAnnotations |-> props.goAnnotations,
                    results |-> <<>>,
                    termGeneCount |-> 0,
                    evidenceThreshold |-> props.minConfidence,
                    activeTerm |-> IF AvailableIds(props.goAnnotations) = <<>> THEN ""
                                   ELSE AvailableIds(props.goAnnotations)[1],
                    selectedTerms |-> IF AvailableIds(props.goAnnotations) = <<>>
                                      THEN <<>>
                                      ELSE FallbackTerms(AvailableIds(props.goAnnotations)),
                    universe |-> Null,
                    universeError |-> Null,
                    loadingUniverse |-> TRUE,
                    fetch |-> "pending",
                    tfTargets |-> BuildTfTargets(props.data, props.minConfidence,
                                                 props.selectedSources, Len(props.data)),
                    resultsByTerm |-> EmptyObject,
                    memoDeps |-> [activeTerm |-> "", selectedTerms |-> <<>>,
                                  evidenceThreshold |-> props.minConfidence,
                                  universe |-> Null],
                    dirty |-> TRUE,
                    invoked |-> FALSE]
    /\ UNCHANGED <<logFactorialCache, call, server>>

\* The state after a render whose memo was recomputed, with r the memo and e
\* what the effect of lines 126-136 sets.
Rendered(p, tfTargets, r, e, called) ==
    [p EXCEPT !.tfTargets = tfTargets,
              !.resultsByTerm = r.resultsByTerm,
              !.memoDeps = PanelDeps(p),
              !.results = e.results,
              !.termGeneCount = e.termGeneCount,
              !.dirty = FALSE,
              !.invoked = p.invoked \/ called]

\* The panel renders again after a change of its state: the memos whose
\* dependencies have changed are recomputed, and the effect of lines 126-136
\* runs when one of its dependencies has.
PanelRender ==
    /\ panel.mounted
    /\ panel.dirty
    /\ IF PanelDeps(panel) = panel.memoDeps
       THEN /\ panel' = [panel EXCEPT !.dirty = FALSE]
            /\ UNCHANGED logFactorialCache
       ELSE \E t \in {BuildTfTargets(panel.data, panel.evidenceThreshold,
                                     panel.selectedSources, Len(panel.data))} :
               \E r \in {PanelResultsByTerm(logFactorialCache, panel, t)} :
                  /\ panel' = Rendered(panel, t, r, PanelEffect(panel, r.resultsByTerm),
                                       DOMAIN r.resultsByTerm # {})
                  /\ logFactorialCache' = r.cache
    /\ UNCHANGED <<call, server>>

\* loadUniverse resumes with a response that is ok and whose text is read:
\* setUniverse(new Set(genes)), and setLoadingUniverse(false) in finally.
FetchResolve ==
    /\ panel.mounted
    /\ panel.fetch = "pending"
    /\ \E lines \in UniverseFiles :
          panel' = [panel EXCEPT !.universe = LoadUniverse(lines, 0),
                                 !.loadingUniverse = FALSE,
                                 !.fetch = "resolved",
                                 !.dirty = TRUE]
    /\ UNCHANGED <<logFactorialCache, call, server>>

\* loadUniverse resumes in its catch block: fetch or res.text() rejected, or
\* the response is not ok.
FetchReject ==
    /\ panel.mounted
    /\ panel.fetch = "pending"
    /\ panel' = [panel EXCEPT !.universe = Null,
                              !.universeError = UniverseErrorMessage,
                              !.loadingUniverse = FALSE,
                              !.fetch = "rejected",
                              !.dirty = TRUE]
    /\ UNCHANGED <<logFactorialCache, call, server>>

\* The user picks a term in the select of lines 234-244: setActiveTerm.
SelectTerm ==
    /\ panel.mounted
    /\ \E t \in Range(AvailableIds(panel.goAnnotations)) :
          /\ t # panel.activeTerm
          /\ panel' = [panel EXCEPT !.activeTerm = t, !.dirty = TRUE]
    /\ UNCHANGED <<logFactorialCache, call, server>>

\* The user picks a minimum evidence in the select of lines 223-232.
SetEvidenceThreshold ==
    /\ panel.mounted
    /\ \E n \in 1..3 :
          /\ n # panel.evidenceThreshold
          /\ panel' = [panel EXCEPT !.evidenceThreshold = n, !.dirty = TRUE]
    /\ UNCHANGED <<logFactorialCache, call, server>>

\* The user clicks the button of a term (lines 258-274): the term leaves the
\* selected terms unless it is the last one, or joins them.
ToggleTerm ==
    /\ panel.mounted
    /\ \E t \in Range(AvailableIds(panel.goAnnotations)) :
          \E next \in {IF t \in Range(panel.selectedTerms)
                       THEN IF FilterIn(panel.selectedTerms,
                                        Range(panel.selectedTerms) \ {t}) # <<>>
                            THEN FilterIn(panel.selectedTerms,
                                          Range(panel.selectedTerms) \ {t})
                            ELSE panel.selectedTerms
                       ELSE Append(panel.selectedTerms, t)} :
             /\ next # panel.selectedTerms
             /\ panel' = [panel EXCEPT !.selectedTerms = next, !.dirty = TRUE]
    /\ UNCHANGED <<logFactorialCache, call, server>>

NextPanel ==
    \/ PanelMount
    \/ PanelRender
    \/ FetchResolve
    \/ FetchReject
    \/ SelectTerm
    \/ SetEvidenceThreshold
    \/ ToggleTerm

SpecPanel == Init /\ [][NextPanel]_vars

\* The two callers of the engine: the batch endpoint in the server process
\* and the panel in the browser.
NextCallers == HandlerCall \/ Return \/ NextPanel

SpecCallers == Init /\ [][NextCallers]_vars

\* The raw rows the source files may hold: one pair written in two cases, the
\* same TF with another target, another TF, and two pairs whose identifiers
\* hold "::" and whose keys are the same string.
RowChoices ==
    {<<"TF1", "g1">>, <<"tf1", "G1">>, <<"TF1", "G2">>, <<"TF2", "G1">>,
     <<"TF1::G1", "G2">>, <<"TF1", "G1::G2">>}

\* The gene mappings: none, one that renames a target, and one that gives two
\* targets the same symbol.
GeneMappings ==
    {NoMapping,
     [x \in {"G1"} |-> "S1"],
     [x \in {"G1", "G2"} |-> "S1"]}

\* The integration of lines 119-165 runs on three parsed files and a gene
\* mapping (getDataset on the server, loadIntegratedData in the browser).
IntegrateCall ==
    /\ call = Idle
    /\ ~panel.mounted
    /\ \E nd \in 0..MaxRows :
          \E nc \in 0..(MaxRows - nd) :
             \E nt \in 0..(MaxRows - nd - nc) :
                \E d \in [1..nd -> RowChoices], c \in [1..nc -> RowChoices],
                   t \in [1..nt -> RowChoices], g \in GeneMappings :
                   call' = [op |-> "integrate",
                            rows |-> Tagged(d, "DAP") \o Tagged(c, "CHIP")
                                        \o Tagged(t, "TARGET"),
                            geneMapping |-> g,
                            interactions |-> Integrate(d, c, t, g)]
    /\ UNCHANGED <<logFactorialCache, server, panel>>

NextIntegration == IntegrateCall \/ Return

SpecIntegration == Init /\ [][NextIntegration]_vars

(* ------------------------------------------------------------------ *)
(* Reference definitions, independent of the engine's code.             *)
(* ------------------------------------------------------------------ *)

\* The binomial coefficient C(n, k), by C(n, k) = C(n, k - 1) * (n - k + 1) / k.
RECURSIVE Binomial(_, _)
Binomial(n, k) ==
    IF k < 0 \/ k > n THEN 0
    ELSE IF k = 0 THEN 1
    ELSE (Binomial(n, k - 1) * (n - k + 1)) \div k

RECURSIVE SumFromTo(_, _, _)
SumFromTo(f, lo, hi) == IF lo > hi THEN 0 ELSE f[lo] + SumFromTo(f, lo + 1, hi)

\* The hypergeometric right tail of the table (a, b, c, d): the sum over k from
\* a to min(K, n) of C(K, k) * C(N - K, n - k) / C(N, n).
HypergeomTail(a, b, c, d) ==
    LET N == a + b + c + d
        K == a + c
        n == a + b
        hi == IF K <= n THEN K ELSE n
        term == [k \in a..hi |-> Binomial(K, k) * Binomial(N - K, n - k)]
    IN  Frac(SumFromTo(term, a, hi), Binomial(N, n))

InUnitInterval(x) == IsFinite(x) /\ NumLe(Zero, x) /\ NumLe(x, One)

\* The least number of a non-empty set of finite numbers.
LeastOf(S) == CHOOSE x \in S : \A y \in S : NumLe(x, y)

\* The ascending rank (1-indexed) of position i of ps; equal values are ranked
\* in the order of their positions.
RankOf(ps, i) ==
    Cardinality({j \in 1..Len(ps) :
                    NumLt(ps[j], ps[i]) \/ (ps[j] = ps[i] /\ j <= i)})

\* The r-th smallest value of ps.
RankedValue(ps, r) ==
    CHOOSE v \in {ps[j] : j \in 1..Len(ps)} :
        /\ Cardinality({j \in 1..Len(ps) : NumLt(ps[j], v)}) < r
        /\ r <= Cardinality({j \in 1..Len(ps) : NumLe(ps[j], v)})

\* The Benjamini-Hochberg q-value of position i of ps: the least p_(j) * m / j
\* over the ranks j from the rank of i to m.
BenjaminiHochberg(ps, i) ==
    LET m == Len(ps)
    IN  LeastOf({FracDiv(FracMul(RankedValue(ps, j), Frac(m, 1)), Frac(j, 1)) :
                    j \in RankOf(ps, i)..m})

\* The exponent of the prime p in i!, by Legendre's formula: the sum of
\* i \div p^k over k >= 1.
RECURSIVE Legendre(_, _)
Legendre(p, i) == IF i < p THEN 0 ELSE (i \div p) + Legendre(p, i \div p)

\* ln(i!) in log space.
LnFactorial(i) == [kind |-> "fin", v |-> [p \in LogPrimes |-> Legendre(p, i)]]

PermutationsOf(m) == {f \in [1..m -> 1..m] : \A i, j \in 1..m : f[i] = f[j] => i = j}

\* The identifiers of the universe that some identifier of genes upper-cases to.
RestrictedTo(genes, universe) ==
    {u \in universe : \E g \in genes : ToUpperCase(g) = u}

\* The target set the map tfTargets holds for the key tf.
TargetsOf(tfTargets, tf) ==
    LET i == CHOOSE j \in 1..Len(tfTargets) : tfTargets[j].tf = tf
    IN  tfTargets[i].targets

(* ------------------------------------------------------------------ *)
(* Properties.                                                          *)
(* ------------------------------------------------------------------ *)

\* C1: the p-value of fisherRightTail(a, b, c, d) is the exact hypergeometric
\* right tail, the sum over k from a to min(K, n) of
\* C(K, k) * C(N - K, n - k) / C(N, n).
C1_RightTailExact ==
    call.op = "fisherRightTail" =>
        call.pValue = HypergeomTail(call.a, call.b, call.c, call.d)

\* The table a=3, b=1, c=2, d=14: the p-value is P(k=3) + P(k=4) = 155/4845.
C1_Witness ==
    /\ call.op = "fisherRightTail"
    /\ <<call.a, call.b, call.c, call.d>> = <<3, 1, 2, 14>>
    /\ call.pValue = Frac(150 + 5, 4845)

\* C2: the p-value of fisherRightTail lies in the closed interval [0, 1].
C2_PValueInUnitInterval ==
    call.op = "fisherRightTail" => InUnitInterval(call.pValue)

\* A table whose tail is the whole distribution: the p-value is exactly 1.
C2_Witness ==
    /\ call.op = "fisherRightTail"
    /\ call.a = 0 /\ call.b > 0 /\ call.c > 0 /\ call.d > 0
    /\ call.pValue = One

\* C3: for p-values in [0, 1], bhFdr returns at every index the
\* Benjamini-Hochberg q-value: the least p_(j) * m / j over the ranks j from
\* the rank of that index up to m.
C3_BenjaminiHochberg ==
    (call.op = "bhFdr" /\ \A i \in 1..Len(call.pValues) : InUnitInterval(call.pValues[i]))
        => \A i \in 1..Len(call.pValues) :
              call.qValues[i] = BenjaminiHochberg(call.pValues, i)

\* The running minimum acts: the raw value of 0.02 at rank 1 of 3 is 0.06, its
\* q-value is 0.03.
C3_Witness ==
    /\ call.op = "bhFdr"
    /\ call.pValues = <<Frac(1, 50), Frac(3, 100), Frac(3, 100)>>
    /\ call.qValues[1] = Frac(3, 100)

\* C4 as stated: bhFdr([0.01, 0.50, 0.02]) is [0.03, 0.5, 0.06].
C4_AsStated ==
    (call.op = "bhFdr" /\ call.pValues = <<Frac(1, 100), Frac(1, 2), Frac(1, 50)>>)
        => call.qValues = <<Frac(3, 100), Frac(1, 2), Frac(6, 100)>>

\* C4, amended: bhFdr([0.01, 0.50, 0.02]) is [0.03, 0.5, 0.03]; the p-value
\* 0.02 has rank 2 of 3, so its raw value is 0.02 * 3 / 2 = 0.03.
C4_Example ==
    (call.op = "bhFdr" /\ call.pValues = <<Frac(1, 100), Frac(1, 2), Frac(1, 50)>>)
        => call.qValues = <<Frac(3, 100), Frac(1, 2), Frac(3, 100)>>

C4_Witness ==
    /\ call.op = "bhFdr"
    /\ call.pValues = <<Frac(1, 100), Frac(1, 2), Frac(1, 50)>>
    /\ Len(call.qValues) = 3

\* C5: bhFdr([0.01, 0.02, 0.03]) is [0.03, 0.03, 0.03].
C5_Example ==
    (call.op = "bhFdr" /\ call.pValues = <<Frac(1, 100), Frac(1, 50), Frac(3, 100)>>)
        => call.qValues = <<Frac(3, 100), Frac(3, 100), Frac(3, 100)>>

C5_Witness ==
    /\ call.op = "bhFdr"
    /\ call.pValues = <<Frac(1, 100), Frac(1, 50), Frac(3, 100)>>
    /\ call.qValues[3] = Frac(3, 100)

\* C6: the q-values of bhFdr are non-decreasing in the p-values: for all
\* indices i, j, pValues[i] < pValues[j] implies q[i] <= q[j].
C6_Monotone ==
    call.op = "bhFdr" =>
        \A i, j \in 1..Len(call.pValues) :
            NumLt(call.pValues[i], call.pValues[j])
                => NumLe(call.qValues[i], call.qValues[j])

\* An unsorted input with three distinct p-values and three distinct q-values.
C6_Witness ==
    /\ call.op = "bhFdr"
    /\ call.pValues = <<Frac(1, 1), Frac(1, 100), Frac(1, 2)>>
    /\ call.qValues = <<Frac(1, 1), Frac(3, 100), Frac(3, 4)>>

\* C7: the output of bhFdr has the length of its input, and permuting the
\* input permutes the output in the same way.
C7_PermutationEquivariant ==
    call.op = "bhFdr" =>
        LET m == Len(call.pValues)
        IN  /\ Len(call.qValues) = m
            /\ \A pi \in PermutationsOf(m) :
                  bhFdr([i \in 1..m |-> call.pValues[pi[i]]])
                      = [i \in 1..m |-> call.qValues[pi[i]]]

\* An input that is not in ascending order, with an output that is not either.
C7_Witness ==
    /\ call.op = "bhFdr"
    /\ call.pValues = <<Frac(1, 2), Frac(1, 100), Frac(1, 50)>>
    /\ call.qValues = <<Frac(1, 2), Frac(3, 100), Frac(3, 100)>>

\* C8: computeEnrichment returns exactly one entry for each TF whose target
\* set restricted to the universe is non-empty, provided the term-gene set
\* restricted to the universe is non-empty, and no entry for any other TF; if
\* the restricted term-gene set is empty the result is the empty list.
C8_OneEntryPerEvaluatedTF ==
    call.op = "computeEnrichment" =>
        LET term == RestrictedTo(call.pathwayGenes, call.universe)
            keys == {call.tfTargets[i].tf : i \in 1..Len(call.tfTargets)}
            evaluated ==
                {tf \in keys :
                    /\ term # {}
                    /\ RestrictedTo(TargetsOf(call.tfTargets, tf), call.universe) # {}}
            entries(tf) == {j \in 1..Len(call.results) : call.results[j].tf = tf}
        IN  /\ \A tf \in evaluated : Cardinality(entries(tf)) = 1
            /\ \A j \in 1..Len(call.results) : call.results[j].tf \in evaluated
            /\ term = {} => call.results = <<>>

\* tfTargets = {TF1: {}, TF2: {G1}}, termGenes = {G1}, universe = {G1, G2}:
\* exactly one entry, for TF2.
C8_Witness ==
    /\ call.op = "computeEnrichment"
    /\ call.tfTargets = <<[tf |-> "TF1", targets |-> {}],
                          [tf |-> "TF2", targets |-> {"G1"}]>>
    /\ call.pathwayGenes = {"G1"}
    /\ call.universe = {"G1", "G2"}
    /\ Len(call.results) = 1
    /\ call.results[1].tf = "TF2"

\* C9: for every TF evaluated, the cells a = |targets /\ term|, b = |targets| - a,
\* c = |term| - a, d = |universe| - a - b - c handed to fisherRightTail (targets
\* and term restricted to the universe) are non-negative and sum to |universe|;
\* the reported overlap is a, the reported target count a + b and the reported
\* term gene count a + c.
C9_ContingencyCells ==
    call.op = "computeEnrichment" =>
        LET term == RestrictedTo(call.pathwayGenes, call.universe)
        IN  /\ Len(call.tables) = Len(call.results)
            /\ \A i \in 1..Len(call.tables) :
                  LET t == call.tables[i]
                      targets == RestrictedTo(TargetsOf(call.tfTargets, t.tf),
                                              call.universe)
                  IN  /\ t.a = Cardinality(targets \cap term)
                      /\ t.b = Cardinality(targets) - t.a
                      /\ t.c = Cardinality(term) - t.a
                      /\ t.d = Cardinality(call.universe) - t.a - t.b - t.c
                      /\ t.a >= 0 /\ t.b >= 0 /\ t.c >= 0 /\ t.d >= 0
                      /\ t.a + t.b + t.c + t.d = Cardinality(call.universe)
                      /\ \E j \in 1..Len(call.results) :
                            /\ call.results[j].tf = t.tf
                            /\ call.results[j].overlap = t.a
                            /\ call.results[j].tfTargets = t.a + t.b
                            /\ call.results[j].pathwayGenes = t.a + t.c

\* A table with four positive cells (TFA of the end-to-end scenario), beside a
\* target set that reaches outside the term.
C9_Witness ==
    /\ call.op = "computeEnrichment"
    /\ Len(call.tables) = 2
    /\ call.tables[1] = [tf |-> "TFA", a |-> 2, b |-> 1, c |-> 2, d |-> 5]
    /\ call.tables[2] = [tf |-> "TFB", a |-> 0, b |-> 2, c |-> 4, d |-> 4]

\* C10: the list returned by computeEnrichment is ordered by ascending p-value
\* and, among equal p-values, by descending overlap: for every adjacent pair
\* (r, s), r.pValue < s.pValue, or r.pValue = s.pValue and r.overlap >= s.overlap.
C10_Ranked ==
    call.op = "computeEnrichment" =>
        \A j \in 1..(Len(call.results) - 1) :
            LET r == call.results[j]
                s == call.results[j + 1]
            IN  \/ NumLt(r.pValue, s.pValue)
                \/ r.pValue = s.pValue /\ r.overlap >= s.overlap

\* Two TFs with the same p-value: the one inserted second has the larger
\* overlap and is ranked first.
C10_Witness ==
    /\ call.op = "computeEnrichment"
    /\ Len(call.results) = 2
    /\ call.results[1].tf = "TF2" /\ call.results[2].tf = "TF1"
    /\ call.results[1].pValue = call.results[2].pValue
    /\ call.results[1].overlap > call.results[2].overlap

\* C11: in the list returned by computeEnrichment, the entry of every evaluated
\* TF carries the p-value of that TF's table and, as fdr, the Benjamini-Hochberg
\* q-value of that p-value over the batch of the p-values of the evaluated TFs
\* (m is the number of returned entries).
C11_FdrOfOwnPValue ==
    call.op = "computeEnrichment" =>
        LET m == Len(call.tables)
            batch == [i \in 1..m |->
                         HypergeomTail(call.tables[i].a, call.tables[i].b,
                                       call.tables[i].c, call.tables[i].d)]
        IN  /\ Len(call.results) = m
            /\ \A i \in 1..m :
                  \E j \in 1..m :
                      /\ call.results[j].tf = call.tables[i].tf
                      /\ call.results[j].pValue = batch[i]
                      /\ call.results[j].fdr = BenjaminiHochberg(batch, i)

\* TF1 (p-value 1) is evaluated before TF2 (p-value 1/3) and ranked after it:
\* TF2 carries the q-value 2/3 and TF1 the q-value 1.
C11_Witness ==
    /\ call.op = "computeEnrichment"
    /\ Len(call.tables) = 2
    /\ call.tables[1].tf = "TF1" /\ call.tables[2].tf = "TF2"
    /\ call.results[1].tf = "TF2"
    /\ call.results[1].pValue = Frac(1, 3) /\ call.results[1].fdr = Frac(2, 3)
    /\ call.results[2].tf = "TF1"
    /\ call.results[2].pValue = One /\ call.results[2].fdr = One

\* C12: the odds ratio of fisherRightTail(a, b, c, d) is (a * d) / (b * c) when
\* b * c > 0; when b * c = 0 it is +Infinity if a > 0 and 0 if a = 0.
C12_OddsRatio ==
    call.op = "fisherRightTail" =>
        IF call.b * call.c > 0
        THEN /\ IsFinite(call.oddsRatio)
             /\ call.oddsRatio.n * (call.b * call.c) = (call.a * call.d) * call.oddsRatio.d
        ELSE IF call.a > 0 THEN call.oddsRatio = Infinity
        ELSE call.oddsRatio = Zero

\* The table a=3, b=1, c=2, d=14: the odds ratio is 42 / 2 = 21.
C12_Witness ==
    /\ call.op = "fisherRightTail"
    /\ <<call.a, call.b, call.c, call.d>> = <<3, 1, 2, 14>>
    /\ call.oddsRatio = Frac(21, 1)

\* C13: increasing a with b, c, d fixed never decreases the odds ratio:
\* fisherRightTail(a + 1, b, c, d).oddsRatio >= fisherRightTail(a, b, c, d).oddsRatio,
\* with +Infinity the greatest value.
C13_OddsRatioMonotone ==
    call.op = "fisherRightTail" =>
        NumLe(call.oddsRatio,
              fisherRightTail(logFactorialCache,
                              call.a + 1, call.b, call.c, call.d).oddsRatio)

\* The step from 0 to +Infinity: a = 0 with b * c = 0.
C13_Witness ==
    /\ call.op = "fisherRightTail"
    /\ call.a = 0 /\ call.b = 0 /\ call.c > 0 /\ call.d > 0
    /\ call.oddsRatio = Zero
    /\ fisherRightTail(logFactorialCache,
                       call.a + 1, call.b, call.c, call.d).oddsRatio = Infinity

C15_DegenerateTables ==
    (/\ call.op = "fisherRightTail"
     /\ \/ call.a + call.b = 0
        \/ call.c + call.d = 0
        \/ call.a + call.c = 0
        \/ call.b + call.d = 0)
        => /\ call.pValue = One
           /\ call.oddsRatio \in {Zero, Infinity}

\* The all-zero table: N = 0, the one term is exp(0) = 1, the odds ratio is 0.
C15_Witness ==
    /\ call.op = "fisherRightTail"
    /\ <<call.a, call.b, call.c, call.d>> = <<0, 0, 0, 0>>
    /\ call.pValue = One
    /\ call.oddsRatio = Zero

C17_Stateless ==
    /\ call.op = "fisherRightTail" =>
          LET first == fisherRightTail(<<LogZero>>, call.a, call.b, call.c, call.d)
          IN  /\ call.pValue = first.pValue
              /\ call.oddsRatio = first.oddsRatio
    /\ call.op = "bhFdr" => call.qValues = bhFdr(call.pValues)
    /\ call.op = "computeEnrichment" =>
          call.results = computeEnrichment(<<LogZero>>, call.tfTargets,
                                           call.pathwayGenes, call.universe).results

\* computeEnrichment on a universe of three genes, evaluating a TF, after a
\* call of fisherRightTail that left more entries in the cache than this call
\* reads.
C17_Witness ==
    /\ call.op = "computeEnrichment"
    /\ Cardinality(call.universe) = 3
    /\ Len(call.results) > 0
    /\ Len(logFactorialCache) = MaxA + MaxB + MaxC + MaxD + 1

\* C18: the engine leaves its arguments as they were: after computeEnrichment
\* the map tfTargets (its keys, their order and every target set), termGenes
\* and universe hold what they held, and after bhFdr the list pValues holds the
\* same values in the same order.
C18_InputsUnchanged ==
    /\ call.op = "bhFdr" => call.after.pValues = call.pValues
    /\ call.op = "computeEnrichment" =>
          /\ call.after.tfTargets = call.tfTargets
          /\ call.after.pathwayGenes = call.pathwayGenes
          /\ call.after.universe = call.universe

\* bhFdr on a list that is not in ascending order: its sorted view differs
\* from the list, which is left as it was.
C18_Witness ==
    /\ call.op = "bhFdr"
    /\ call.pValues = <<Frac(1, 2), Frac(1, 100), Frac(1, 50)>>
    /\ call.after.pValues = <<Frac(1, 2), Frac(1, 100), Frac(1, 50)>>
    /\ BhArrays(call.pValues).indexed[1].idx = 2

\* C19: after any sequence of calls of logFactorial with integer arguments of
\* either sign, entry i of the cache is ln(i!) for every index i below its
\* length (entry 0 is 0, entry i is entry i - 1 plus ln(i)); a call keeps every
\* entry the cache held and never shortens it; a call with n >= 0 returns
\* ln(n!); a call with n < 0 returns 0 and leaves the cache as it was.
C19_CacheInvariant ==
    /\ Len(logFactorialCache) >= 1
    /\ logFactorialCache[1] = LogZero
    /\ \A i \in 1..(Len(logFactorialCache) - 1) :
          /\ logFactorialCache[i + 1] = LnFactorial(i)
          /\ logFactorialCache[i + 1] = LogAdd(logFactorialCache[i], MathLog(i))
    /\ call.op = "logFactorial" =>
          /\ Len(logFactorialCache) >= Len(call.before)
          /\ SubSeq(logFactorialCache, 1, Len(call.before)) = call.before
          /\ call.n >= 0 => /\ call.val = LnFactorial(call.n)
                            /\ call.val = logFactorialCache[call.n + 1]
          /\ call.n < 0 => /\ call.val = LogZero
                           /\ logFactorialCache = call.before

\* logFactorial(5) on a cache of three entries: the cache grows to six entries
\* and the call returns ln(120).
C19_Witness ==
    /\ call.op = "logFactorial"
    /\ call.n = 5
    /\ Len(call.before) = 3
    /\ Len(logFactorialCache) = 6
    /\ MathExp(call.val) = Frac(120, 1)

\* C20: computeEnrichment restricts gene sets without regard to letter case: an
\* identifier of termGenes or of a target set is counted if and only if its
\* upper-cased form is in the universe, and identifiers of one set with the
\* same upper-cased form are counted once.  Every returned entry reports, for
\* its TF, the number of universe members that are the upper-cased form of some
\* target, the same number for the term genes, and as overlap the number of
\* universe members that are both; a TF with a counted target is reported
\* whenever a term gene is counted.
C20_CaseInsensitive ==
    call.op = "computeEnrichment" =>
        LET counted(genes) ==
                {u \in call.universe : \E g \in genes : ToUpperCase(g) = u}
        IN  /\ \A i \in 1..Len(call.tfTargets) :
                  (counted(call.tfTargets[i].targets) # {}
                      /\ counted(call.pathwayGenes) # {})
                      => \E j \in 1..Len(call.results) :
                            call.results[j].tf = call.tfTargets[i].tf
            /\ \A j \in 1..Len(call.results) :
                  LET r == call.results[j]
                      targets == TargetsOf(call.tfTargets, r.tf)
                  IN  /\ r.tfTargets = Cardinality(counted(targets))
                      /\ r.pathwayGenes = Cardinality(counted(call.pathwayGenes))
                      /\ r.overlap =
                            Cardinality(counted(targets)
                                            \cap counted(call.pathwayGenes))

\* The targets "g1" and "G1" of one TF are counted as one gene, and the term
\* gene "g1" is counted, and overlaps it.
C20_Witness ==
    /\ call.op = "computeEnrichment"
    /\ call.pathwayGenes = {"g1"}
    /\ Len(call.results) >= 1
    /\ TargetsOf(call.tfTargets, call.results[1].tf) = {"g1", "G1"}
    /\ call.results[1].tfTargets = 1
    /\ call.results[1].pathwayGenes = 1
    /\ call.results[1].overlap = 1

(* ------------------------------------------------------------------ *)
(* The callers of the engine.                                           *)
(* ------------------------------------------------------------------ *)

\* The target identifier of an integrated interaction: targetId, or target
\* when there is no targetId.
IdentifierOf(i) == IF i.targetId # "" THEN i.targetId ELSE i.target

\* Interaction i passes the filters: evidence and sources.
Qualifies(i, minimum, chosen) ==
    /\ IdentifierOf(i) # ""
    /\ i.evidenceCount >= minimum
    /\ Range(i.sources) \cap chosen # {}

\* The map m is the TF-target map of the interactions under the filters.
IsTfTargetMapOf(m, interactions, minimum, chosen) ==
    /\ \A k \in 1..Len(m) :
          /\ m[k].targets # {}
          /\ \A g \in m[k].targets :
                \E n \in 1..Len(interactions) :
                   /\ interactions[n].tf = m[k].tf
                   /\ Qualifies(interactions[n], minimum, chosen)
                   /\ ToUpperCase(IdentifierOf(interactions[n])) = g
    /\ \A n \in 1..Len(interactions) :
          Qualifies(interactions[n], minimum, chosen)
             => \E k \in 1..Len(m) :
                   /\ m[k].tf = interactions[n].tf
                   /\ ToUpperCase(IdentifierOf(interactions[n])) \in m[k].targets
    /\ \A k, l \in 1..Len(m) : m[k].tf = m[l].tf => k = l

\* C21: the TF-target map handed to computeEnrichment holds gene g in the set
\* of TF t exactly when some integrated interaction of t has a non-empty
\* target identifier that upper-cases to g, an evidenceCount of at least the
\* chosen minimum and one of its sources among the chosen sources; and no TF
\* of the map has an empty set.  This holds of the map of the batch endpoint
\* and of the map the panel last computed.
C21_TfTargetMap ==
    /\ (call.op = "handler" /\ call.status = 200)
          => IsTfTargetMapOf(call.tfTargets, server.cached.interactions,
                             call.req.minConfidence, call.req.selectedSources)
    /\ panel.mounted
          => IsTfTargetMapOf(panel.tfTargets, panel.data,
                             panel.memoDeps.evidenceThreshold, panel.selectedSources)

\* The endpoint has built a map that holds "G1" for an interaction written
\* "g1", and has left out one interaction for its evidence and one for its
\* sources.
C21_Witness ==
    /\ call.op = "handler"
    /\ call.status = 200
    /\ \E k \in 1..Len(call.tfTargets) : "G1" \in call.tfTargets[k].targets
    /\ \E n \in 1..Len(server.cached.interactions) :
          /\ server.cached.interactions[n].targetId = "g1"
          /\ Qualifies(server.cached.interactions[n], call.req.minConfidence,
                       call.req.selectedSources)
    /\ \E n \in 1..Len(server.cached.interactions) :
          /\ server.cached.interactions[n].evidenceCount < call.req.minConfidence
          /\ Range(server.cached.interactions[n].sources)
                \cap call.req.selectedSources # {}
    /\ \E n \in 1..Len(server.cached.interactions) :
          /\ server.cached.interactions[n].evidenceCount >= call.req.minConfidence
          /\ Range(server.cached.interactions[n].sources)
                \cap call.req.selectedSources = {}

\* The body of a 200 response is the one the claim describes: one key per
\* distinct requested term in resultsByTerm and in termGeneCounts, each result
\* that of computeEnrichment on the term's annotated genes, the filtered
\* TF-target map and the universe, and universeSize the size of the universe.
BatchBodyOf(body, req, dataset, universe) ==
    LET tfTargets == BuildTfTargets(dataset.interactions, req.minConfidence,
                                    req.selectedSources, Len(dataset.interactions))
    IN  /\ DOMAIN body = {"resultsByTerm", "termGeneCounts", "universeSize"}
        /\ DOMAIN body.resultsByTerm = Range(req.terms)
        /\ DOMAIN body.termGeneCounts = Range(req.terms)
        /\ \A t \in Range(req.terms) :
              /\ body.resultsByTerm[t] =
                    computeEnrichment(<<LogZero>>, tfTargets, TermGenes(dataset, t),
                                      universe).results
              /\ body.termGeneCounts[t] = Cardinality(TermGenes(dataset, t))
        /\ body.universeSize = Cardinality(universe)

\* The request is a POST with a non-empty terms array.
PostWithTerms(req) == req.method = "POST" /\ req.isArray /\ Len(req.terms) > 0

C23_NoUniverse ==
    panel.mounted
        => /\ panel.universe = Null
                 => /\ ~panel.invoked
                    /\ panel.results = <<>>
                    /\ panel.termGeneCount = 0
                    /\ panel.resultsByTerm = EmptyObject
           /\ panel.fetch = "rejected"
                 => /\ panel.universe = Null
                    /\ panel.universeError = UniverseErrorMessage
           /\ panel.fetch # "pending" => ~panel.loadingUniverse

\* The load of the universe has failed, the user has since picked another
\* term with annotated genes, and the panel, which has TFs to evaluate, has
\* rendered again.
C23_Witness ==
    /\ panel.mounted
    /\ panel.fetch = "rejected"
    /\ ~panel.dirty
    /\ panel.activeTerm = "GO2"
    /\ panel.memoDeps.activeTerm = "GO2"
    /\ Len(panel.tfTargets) > 0

\* C24: in every list returned by computeEnrichment, fdr is non-decreasing
\* from the first entry to the last.
C24_FdrNonDecreasing ==
    call.op = "computeEnrichment" =>
        \A i, j \in 1..Len(call.results) :
            i < j => NumLe(call.results[i].fdr, call.results[j].fdr)

\* A returned list in which fdr grows strictly, for TFs that were evaluated in
\* the opposite order.
C24_Witness ==
    /\ call.op = "computeEnrichment"
    /\ Len(call.results) = 2
    /\ NumLt(call.results[1].fdr, call.results[2].fdr)
    /\ call.results[1].tf = call.tables[2].tf
    /\ call.results[2].tf = call.tables[1].tf

C26_TiesShareQ ==
    call.op = "bhFdr" =>
        \A i, j \in 1..Len(call.pValues) :
            call.pValues[i] = call.pValues[j] => call.qValues[i] = call.qValues[j]

\* Two equal p-values, apart in the list, below a larger one: their raw values
\* p * m / rank differ, and their q-values are the same.
C26_Witness ==
    /\ call.op = "bhFdr"
    /\ Len(call.pValues) = 3
    /\ call.pValues[1] = call.pValues[3]
    /\ NumLt(call.pValues[1], call.pValues[2])
    /\ NumLt(Zero, call.pValues[1])
    /\ call.qValues[1] = call.qValues[3]
    /\ NumLt(call.qValues[1], call.qValues[2])

KeyOfRow(row, geneMapping) ==
    InteractionKey(resolve(geneMapping, row.tf), resolve(geneMapping, row.target))

KeyOfRecord(r) == InteractionKey(r.tf, r.target)

\* The sources of the rows of a key.
SourcesOf(rows, geneMapping, key) ==
    {rows[n].source : n \in {k \in 1..Len(rows) : KeyOfRow(rows[k], geneMapping) = key}}

\* C28: after any sequence of raw rows from the three source files, the
\* integration holds exactly one record for each (resolved TF, resolved
\* target) key of the rows; the sources of a record have no duplicates; its
\* evidenceCount is the number of distinct sources of its key, between 1 and 3;
\* it is isHighConfidence exactly when evidenceCount >= 2; and the list is
\* ordered by non-increasing evidenceCount.
C28_Integration ==
    call.op = "integrate" =>
        LET list == call.interactions
            keys == {KeyOfRow(call.rows[n], call.geneMapping) : n \in 1..Len(call.rows)}
        IN  /\ \A key \in keys :
                  Cardinality({i \in 1..Len(list) : KeyOfRecord(list[i]) = key}) = 1
            /\ \A i \in 1..Len(list) :
                  /\ KeyOfRecord(list[i]) \in keys
                  /\ \E n \in 1..Len(call.rows) :
                        /\ list[i].tf = resolve(call.geneMapping, call.rows[n].tf)
                        /\ list[i].target = resolve(call.geneMapping, call.rows[n].target)
                  /\ Cardinality(Range(list[i].sources)) = Len(list[i].sources)
                  /\ Range(list[i].sources)
                        = SourcesOf(call.rows, call.geneMapping, KeyOfRecord(list[i]))
                  /\ list[i].evidenceCount = Cardinality(Range(list[i].sources))
                  /\ list[i].evidenceCount \in 1..3
                  /\ list[i].isHighConfidence <=> list[i].evidenceCount >= 2
            /\ \A i, j \in 1..Len(list) :
                  i < j => list[i].evidenceCount >= list[j].evidenceCount

\* Three rows: the pair of the first row has one source; the pair of the other
\* two, written in two cases in two files, has two sources and is listed
\* first.
C28_Witness ==
    /\ call.op = "integrate"
    /\ Len(call.rows) = 3
    /\ Len(call.interactions) = 2
    /\ call.interactions[1].evidenceCount = 2
    /\ call.interactions[1].isHighConfidence
    /\ call.interactions[2].evidenceCount = 1
    /\ KeyOfRow(call.rows[1], call.geneMapping) = KeyOfRecord(call.interactions[2])
    /\ call.rows[2].tf # call.rows[3].tf
    /\ KeyOfRow(call.rows[2], call.geneMapping) = KeyOfRow(call.rows[3], call.geneMapping)
    /\ call.rows[2].target # "G1::G2"
    /\ call.rows[3].target # "G1::G2"

\* C29: once a call of getDataset has resolved, every call of getDataset
\* started afterwards resolves with that same dataset without reading any
\* file; and while no call has resolved (every load so far has failed or is
\* in flight) the cache is empty, a failed call rejects, and a call that
\* starts reads the files afresh.
C29_CachedAfterSuccess ==
    /\ \A k \in 1..Len(server.calls) :
          server.calls[k].fn = "getDataset"
             => /\ server.calls[k].after # {}
                      => /\ server.calls[k].pc = "done"
                         /\ server.calls[k].ok
                         /\ ~server.calls[k].read
                         /\ \A v \in server.calls[k].after : server.calls[k].value = v
                /\ server.calls[k].after = {} => server.calls[k].read
    /\ Resolved(server.calls, "getDataset") = {} => server.cached = Null

\* C30: the caches of the server are loaded at most once even under
\* overlapping requests: a call of getDataset or getUniverse that starts
\* while a load of its cache is in flight reads no file, and each cache is
\* assigned at most once, so the cached object is never replaced.
C30_LoadedOnce ==
    /\ \A k \in 1..Len(server.calls) :
          server.calls[k].overlapped => ~server.calls[k].read
    /\ \A fn \in {"getDataset", "getUniverse"} :
          Cardinality({k \in 1..Len(server.calls) :
                          /\ server.calls[k].fn = fn
                          /\ server.calls[k].pc = "done"
                          /\ server.calls[k].ok
                          /\ server.calls[k].read}) <= 1

====
